---- MODULE Spec2Model ----
(***************************************************************************)
(* DriveClient (drive-client.js): the localStorage cache in front of the   *)
(* Google Drive store.  Every asynchronous method is cut at its awaits:    *)
(* one action for the synchronous prefix of the method, one action per     *)
(* remote response.  The remote store, the clock (Date.now) and the        *)
(* outcome of localStorage.setItem are the environment.                    *)
(***************************************************************************)
EXTENDS Integers, Sequences, FiniteSets, TLC

\* ------------------------------------------------------------ constants
APP_CACHE_MAX == 4

\* ------------------------------------------------------------ bounds
MaxTime == 2
MaxHtml == 1
MaxData == 1
MaxSessions == 1
MaxNewApps == 1
MaxNewSessions == 1
MaxMsgs == 3
MaxGuestData == 1
MaxFrames == 2
MaxOutbox == 4
MaxReloadMsgs == 2
MaxSwitchMsgs == 1
\* the largest reading of Date.now(), in milliseconds
MaxClock == 1000000000
\* the access tokens Google hands out, and the minutes the clock of GoogleAuth runs
MaxTokens == 2
MaxMinutes == 4

NumApps == APP_CACHE_MAX + 1
AppIds == 1..NumApps
\* the session files Drive may come to hold: those made through DriveClient alone, and
\* those the runner's new-session button adds
SessIds == 1..(MaxSessions + MaxNewSessions)
LibSessIds == 1..MaxSessions
\* the pending calls of a caller that awaits each call before it makes the next
Slots == {1}
\* the app the page works on; the apps share nothing but the bundle table
SyncApps == {1}
Times == 1..MaxTime
Htmls == 0..MaxHtml
Datas == 0..MaxData

\* JS null / undefined, and the empty object {} a session starts with
Null == -1
Undefined == -2
EmptyObj == 0
\* localStorage.getItem of a key that is absent
Absent == [kind |-> "absent"]

FileNames == {"manifest", "params", "appHtml"}

VARIABLES now, appTable, sessionCache, fileIdCache, sessFolderCache, sessListCache, appFilesCache, rApp, rTrashed, rSess, sessOwner, calls, lastRet

\* createApp and ensureRootFolder: the app folders Drive has created for createApp,
\* this.rootFolderId (known or not) and the localStorage key rootFolderId
VARIABLES created, rootFolderId, rootCache

cacheVars == <<appTable, sessionCache, fileIdCache, sessFolderCache, sessListCache, appFilesCache>>
createVars == <<created, rootFolderId, rootCache>>

\* AppRunner (app-runner.js): _mounted; connected: the element is in the document
\* and its message listener is registered; the iframe it
\* tracks (0: none) and the number of iframes rendered so far, loading, manifest,
\* params, sessions, currentSession; hostPc is the position of the asynchronous
\* method of the runner that is under way, writes the saveSession calls it has
\* started, outbox the messages posted to guests, msgs the number of window
\* messages delivered and lastMsg the last one delivered since currentSession
\* was last replaced
VARIABLES mounted, connected, iframe, frames, loading, hostManifest, hostParams, sessions, currentSession, hostPc, writes, outbox, msgs, lastMsg

\* GoogleAuth (google-auth.js): getToken() yields a token that is stored and not expired
VARIABLES token
authVars == <<token>>

\* AppRunner.formatSyncTime: its argument, the value of Date.now() at the call,
\* and the text it returned (NotFormatted before the call)
VARIABLES timestamp, dateNow, syncText
fmtVars == <<timestamp, dateNow, syncText>>

\* the page in the iframe: guestRead is the number of the posted messages it has
\* received, sent the update-session it posted last (n: the messages the runner
\* had been delivered by then, shows: the session it was showing).  postedFor
\* records, for each posted message, the id of the session an init was built
\* from (0 otherwise)
VARIABLES postedFor, guestRead, sent
guestVars == <<postedFor, guestRead, sent>>

\* the rest of the page.  thisAppId is this.appId of the runner (the app-id
\* attribute); editor holds the fields of the AppEditor element (_mounted,
\* appHtml, manifest, loading, saving, dirty) and, as synced, the html of its
\* last load or last successful save, as settled how its last save ended;
\* sessionStorage holds the two items of GoogleAuth and
\* authRet what its last call returned
VARIABLES thisAppId, editor, sessionStorage, authRet
pageVars == <<thisAppId, editor, sessionStorage, authRet>>

hostVars == <<mounted, connected, iframe, frames, loading, hostManifest, hostParams, sessions, currentSession, hostPc, writes, outbox, msgs, lastMsg>>
\* what the methods of DriveClient never touch
extVars == <<createVars, hostVars, authVars, fmtVars, guestVars, pageVars>>
remoteVars == <<rApp, rTrashed, rSess, sessOwner>>
vars == <<now, appTable, sessionCache, fileIdCache, sessFolderCache, sessListCache, appFilesCache, rApp, rTrashed, rSess, sessOwner, calls, lastRet, extVars>>

\* ------------------------------------------------------------ helpers
\* a stored string JSON.parse rejects, under a cacheSet key and under the key of
\* the bundle table
Unparsable == [kind |-> "unparsable"]
UnparsableTable == <<Unparsable>>

\* cacheGet: JSON.parse inside try, catch { return null }
CacheGetLenient(e) == IF e = Unparsable THEN [kind |-> "raw", doc |-> [kind |-> "doc", name |-> 0, createdAt |-> 0, data |-> 0]] ELSE e
CacheGet(e) == IF e = Unparsable THEN Absent ELSE e

\* getAppCache: data ? JSON.parse(data) : {} inside try, catch { return {} }
GetAppCache(table) == IF table = UnparsableTable THEN <<>> ELSE table

RECURSIVE KeepIdx(_, _, _)
KeepIdx(seq, drop, i) ==
    IF i > Len(seq) THEN <<>>
    ELSE IF i \in drop THEN KeepIdx(seq, drop, i + 1)
    ELSE <<seq[i]>> \o KeepIdx(seq, drop, i + 1)

\* position of appId in the table (Object.entries order), 0 when absent
IndexOf(table, appId) ==
    IF \E i \in 1..Len(table) : table[i].id = appId
    THEN CHOOSE i \in 1..Len(table) : table[i].id = appId
    ELSE 0

TableIds(table) == {table[i].id : i \in 1..Len(table)}

\* entries.sort((a, b) => a[1].cachedAt - b[1].cachedAt): the sort is stable, so
\* entry j comes before entry i when it is older, or as old and earlier in the object
SortsBefore(table, j, i) ==
    \/ table[j].cachedAt < table[i].cachedAt
    \/ table[j].cachedAt = table[i].cachedAt /\ j < i

\* entries.slice(0, entries.length - APP_CACHE_MAX): the indices of the first entries of the sorted list
ToRemoveFirstInserted(table) ==
    {i \in 1..Len(table) : i <= Len(table) - APP_CACHE_MAX}
ToRemove(table) ==
    {i \in 1..Len(table) : Cardinality({j \in 1..Len(table) : SortsBefore(table, j, i)}) < Len(table) - APP_CACHE_MAX}

\* cache[appId] = {...data, cachedAt: Date.now()}: an existing key keeps its place, a new key goes last
Upsert(table, appId, data, t) ==
    LET e == [id |-> appId, manifest |-> data.manifest, params |-> data.params, appHtml |-> data.appHtml, syncTime |-> data.syncTime, cachedAt |-> t]
        i == IndexOf(table, appId)
    IN IF i = 0 THEN Append(table, e) ELSE [table EXCEPT ![i] = e]

\* the table setAppCache leaves in localStorage; stored = FALSE when setItem throws
\* (quota), which the catch swallows
SetAppCacheNoEviction(table, appId, data, t, stored) ==
    IF stored THEN Upsert(GetAppCache(table), appId, data, t) ELSE table
SetAppCache(table, appId, data, t, stored) ==
    LET cache == Upsert(GetAppCache(table), appId, data, t)
        evicted == IF Len(cache) > APP_CACHE_MAX THEN KeepIdx(cache, ToRemove(cache), 1) ELSE cache
    IN IF stored THEN evicted ELSE table

\* cache[appId] || null
GetAppFromCache(table, appId) ==
    IF IndexOf(GetAppCache(table), appId) = 0 THEN Absent
    ELSE LET e == table[IndexOf(table, appId)]
         IN [kind |-> "entry", manifest |-> e.manifest, params |-> e.params, appHtml |-> e.appHtml, syncTime |-> e.syncTime, cachedAt |-> e.cachedAt]

NoRet == [op |-> "none", id |-> 0, force |-> FALSE, status |-> "none", net |-> FALSE, warned |-> FALSE, arg |-> Absent, val |-> Absent]
Idle == [op |-> "idle"]

\* a session file: {name, createdAt, data}
Doc(name, createdAt, data) == [kind |-> "doc", name |-> name, createdAt |-> createdAt, data |-> data]

\* ------------------------------------------------------------ initial state
NotFormatted == "(none)"
\* an empty localStorage, the apps' files on Drive, no session yet
\* the values of Number and of String that the model tells from the contents:
\* what parseInt gives for a text that is no number, and the empty text
NaN == -3
EmptyText == -4
\* { name: 'Untitled', params: {}, sessionSchema: {} }
UntitledManifest == -5
tokenKey == "tiny_app_token"
expiryKey == "tiny_app_token_expiry"
NoAuthRet == [op |-> "none", val |-> Null]

\* the constructors of AppEditor and GoogleAuth, and the app-id attribute of the page
InitPage ==
    /\ thisAppId \in SyncApps
    /\ editor = [mounted |-> FALSE, appHtml |-> EmptyText, manifest |-> Null, loading |-> TRUE, saving |-> FALSE, dirty |-> FALSE, synced |-> EmptyText, settled |-> "none"]
    /\ sessionStorage = [k \in {tokenKey, expiryKey} |-> Null]
    /\ authRet = NoAuthRet

Init ==
    /\ now = 1
    /\ appTable = <<>>
    /\ sessionCache = [s \in SessIds |-> Absent]
    /\ fileIdCache = {}
    /\ sessFolderCache = {}
    /\ sessListCache = {}
    /\ appFilesCache = {}
    /\ rApp = [a \in AppIds |-> [manifest |-> 0, params |-> 0, appHtml |-> 0]]
    /\ rTrashed = {}
    /\ rSess = [s \in SessIds |-> Absent]
    /\ sessOwner = [s \in SessIds |-> 0]
    /\ calls = [c \in Slots |-> Idle]
    /\ lastRet = NoRet
    /\ created = {}
    /\ rootFolderId = FALSE
    /\ rootCache = FALSE
    /\ token = TRUE
    /\ timestamp = Null
    /\ dateNow = 0
    /\ syncText = NotFormatted
    /\ postedFor = <<>>
    /\ guestRead = 0
    /\ sent = [kind |-> "none"]
    /\ InitPage
    /\ mounted = FALSE
    /\ connected = FALSE
    /\ iframe = 0
    /\ frames = 0
    /\ loading = TRUE
    /\ hostManifest = Null
    /\ hostParams = Null
    /\ sessions = {}
    /\ currentSession = [kind |-> "none"]
    /\ hostPc = [op |-> "idle", step |-> "none", arg |-> 0]
    /\ writes = <<>>
    /\ outbox = <<>>
    /\ msgs = 0
    /\ lastMsg = [type |-> "none"]

\* Date.now() moves on
Tick ==
    /\ now < MaxTime
    /\ now' = now + 1
    /\ UNCHANGED <<cacheVars, remoteVars, calls, lastRet>>
    /\ UNCHANGED extVars

\* ------------------------------------------------------------ getAppFiles
\* what the call that settled last gave its caller; cleared when the caller goes on
\* to a call that has to wait for Drive.  net: the call sent a request to Drive;
\* warned: its cache write threw and console.warn reported it
Ret(op, id, force, status, net, warned, arg, val) ==
    [op |-> op, id |-> id, force |-> force, status |-> status, net |-> net, warned |-> warned, arg |-> arg, val |-> val]

\* the outcome of a request that is under way: Drive refuses a request whose
\* Authorization header carries no token (createFile, updateFile and getFileContent
\* send `Bearer ${token}` whatever getToken() gave); rsp is its answer otherwise
Refused(rsp) == rsp = "fail" \/ ~token
\* what an operation tells its caller once Drive has answered and the cache
\* write that follows was tried: cacheSet and setAppCache catch what setItem
\* throws and only warn
CacheWriteThrows(stored) == IF stored THEN "ok" ELSE "err"
CacheWriteOutcome(stored) == "ok"
\* the call after a refused request: request(), createFile, updateFile and
\* getFileContent throw on !response.ok and no caller inside DriveClient catches
RetryAfterRefusal(k) == k
AfterRefusal(k) == Idle
\* request(): if (!token) throw new Error('Not authenticated'), before fetch
NotAuthenticated(op, id, force, net) == Ret(op, id, force, "err", net, FALSE, Absent, Absent)

\* if (!forceRefresh) { const cached = ...; if (cached) return ... }
ServeFromCacheIgnoringForce(force, cached) == cached # Absent
ServeFromCache(force, cached) == ~force /\ cached # Absent

\* the table after getAppFromCache: getAppCache parses it and nothing is written back
TableAfterGetTouch(table, appId, t) ==
    [i \in 1..Len(table) |-> IF table[i].id = appId THEN [table[i] EXCEPT !.cachedAt = t] ELSE table[i]]
TableAfterGet(table, appId, t) == table

\* the lookup of findFile finds file f of app a: the query asks for trashed=false,
\* and a file that was never created is not there
FileExists(a, f) == a \notin rTrashed /\ rApp[a][f] # Null

\* findFile's first lines: a cached file id spares the lookup request
ChainStartNoCache(a, f) == [st |-> "find", v |-> 0]
ChainStart(a, f) ==
    IF <<a, f>> \in fileIdCache THEN [st |-> "read", v |-> 0] ELSE [st |-> "find", v |-> 0]

\* manifest ? JSON.parse(manifest) : null; the html is kept as text.  A file's
\* content is modelled by the value it serialises
ParseFile(f, content) ==
    IF content = Null THEN Null ELSE content

AnyFetched(ch) == \E f \in FileNames : ch[f].st = "val"
AllFetched(ch) == \A f \in FileNames : ch[f].st = "val"

\* getAppFiles up to its first await: the cache check, then the three findFile calls.
\* Without a token a lookup that findFile has to send rejects Promise.all at once,
\* while the chains whose file id is cached have sent their getFileContent
GetAppFilesStart(c, a, force) ==
    /\ calls[c] = Idle
    /\ LET cached == GetAppFromCache(appTable, a)
       IN IF ServeFromCache(force, cached)
          THEN /\ lastRet' = Ret("getAppFiles", a, force, "ok", FALSE, FALSE, Absent, [manifest |-> cached.manifest, params |-> cached.params, appHtml |-> cached.appHtml, syncTime |-> cached.cachedAt])
               /\ appTable' = TableAfterGet(appTable, a, now)
               /\ UNCHANGED calls
          ELSE IF ~token /\ \E f \in FileNames : ChainStart(a, f).st = "find"
          THEN /\ lastRet' = NotAuthenticated("getAppFiles", a, force, \E f \in FileNames : ChainStart(a, f).st = "read")
               /\ UNCHANGED <<calls, appTable>>
          ELSE /\ calls' = [calls EXCEPT ![c] = [op |-> "getAppFiles", id |-> a, force |-> force, ch |-> [f \in FileNames |-> ChainStart(a, f)]]]
               /\ lastRet' = NoRet
               /\ UNCHANGED appTable
    /\ UNCHANGED <<now, sessionCache, fileIdCache, sessFolderCache, sessListCache, appFilesCache, remoteVars>>
    /\ UNCHANGED extVars

\* one response of the chain findFile(appId, f).then(getFileContent); when it is the
\* last one Promise.all resolves and the rest of getAppFiles runs in the same turn.
\* A failed response rejects Promise.all and the call.  The lookup finds nothing
\* in a trashed app folder; a file whose id is known is still read.
GetAppFilesResponse(c, f, rsp, stored) ==
    /\ calls[c] # Idle
    /\ calls[c].op = "getAppFiles"
    /\ calls[c].ch[f].st \in {"find", "read", "served"}
    /\ LET k == calls[c]
           a == k.id
           found == k.ch[f].st = "find" /\ FileExists(a, f)
           got == IF k.ch[f].st = "find" THEN Null ELSE IF k.ch[f].st = "served" THEN k.ch[f].v ELSE rApp[a][f]
           ch2 == [k.ch EXCEPT ![f] = IF found THEN [st |-> "read", v |-> 0] ELSE [st |-> "val", v |-> got]]
           result == [manifest |-> ParseFile("manifest", ch2["manifest"].v), params |-> ParseFile("params", ch2["params"].v), appHtml |-> ch2["appHtml"].v, syncTime |-> now]
       IN IF Refused(rsp)
          THEN /\ calls' = [calls EXCEPT ![c] = AfterRefusal(k)]
               /\ lastRet' = Ret("getAppFiles", a, k.force, "err", TRUE, FALSE, Absent, Absent)
               /\ UNCHANGED <<appTable, fileIdCache>>
          ELSE IF found
          THEN /\ fileIdCache' = IF stored THEN fileIdCache \cup {<<a, f>>} ELSE fileIdCache
               /\ calls' = [calls EXCEPT ![c].ch = ch2]
               /\ UNCHANGED <<appTable, lastRet>>
          ELSE IF AllFetched(ch2)
          THEN /\ appTable' = SetAppCache(appTable, a, result, now, stored)
               /\ calls' = [calls EXCEPT ![c] = Idle]
               /\ lastRet' = Ret("getAppFiles", a, k.force, CacheWriteOutcome(stored), TRUE, ~stored, Absent, result)
               /\ UNCHANGED fileIdCache
          ELSE /\ calls' = [calls EXCEPT ![c].ch = ch2]
               /\ UNCHANGED <<appTable, fileIdCache, lastRet>>
    /\ UNCHANGED <<now, sessionCache, sessFolderCache, sessListCache, appFilesCache, remoteVars>>
    /\ UNCHANGED extVars

\* ------------------------------------------------------------ saveAppHtml, saveManifest, saveParams
SaveOps == {"saveAppHtml", "saveManifest", "saveParams"}
FileOfOp(op) ==
    IF op = "saveAppHtml" THEN "appHtml" ELSE IF op = "saveManifest" THEN "manifest" ELSE "params"

\* the save up to its first await: findFile answers from the file-id cache or asks Drive
SaveFileStart(c, op, a, content) ==
    /\ calls[c] = Idle
    /\ IF ~token /\ <<a, FileOfOp(op)>> \notin fileIdCache
       THEN /\ lastRet' = NotAuthenticated(op, a, FALSE, FALSE)
            /\ UNCHANGED calls
       ELSE /\ calls' = [calls EXCEPT ![c] = [op |-> op, id |-> a, content |-> content, pc |-> IF <<a, FileOfOp(op)>> \in fileIdCache THEN "update" ELSE "find"]]
            /\ lastRet' = NoRet
    /\ UNCHANGED <<now, cacheVars, remoteVars>>
    /\ UNCHANGED extVars

SaveAppHtmlStart(c, a, content) == SaveFileStart(c, "saveAppHtml", a, content)
SaveManifestStart(c, a, manifest) == SaveFileStart(c, "saveManifest", a, manifest)
SaveParamsStart(c, a, params) == SaveFileStart(c, "saveParams", a, params)

\* saveAppHtml after its await: if (cached) setAppCache(appId, {...cached, appHtml: content})
SaveAppHtmlCache(table, a, content, t, stored) ==
    LET cached == GetAppFromCache(table, a)
    IN IF cached = Absent THEN table
       ELSE SetAppCache(table, a, [manifest |-> cached.manifest, params |-> cached.params, appHtml |-> content, syncTime |-> cached.syncTime], t, stored)

\* the table a save leaves: the lines after the await run only when the write
\* succeeded (written); saveManifest and saveParams have none ("No caching")
SaveCache(op, table, a, content, t, written, stored) ==
    IF written /\ op = "saveAppHtml" THEN SaveAppHtmlCache(table, a, content, t, stored) ELSE table

\* a response to the save: of findFile's lookup, or of updateFile / createFile
SaveFileResponse(c, rsp, stored) ==
    /\ calls[c] # Idle
    /\ calls[c].op \in SaveOps
    /\ LET k == calls[c]
           a == k.id
           f == FileOfOp(k.op)
           written == ~Refused(rsp) /\ k.pc # "find"
           warned == written /\ k.op = "saveAppHtml" /\ GetAppFromCache(appTable, a) # Absent /\ ~stored
       IN IF ~Refused(rsp) /\ k.pc = "find"
          THEN /\ fileIdCache' = IF stored /\ FileExists(a, f) THEN fileIdCache \cup {<<a, f>>} ELSE fileIdCache
               /\ calls' = [calls EXCEPT ![c].pc = IF FileExists(a, f) THEN "update" ELSE "create"]
               /\ UNCHANGED <<appTable, rApp, lastRet>>
          ELSE /\ rApp' = IF written THEN [rApp EXCEPT ![a][f] = k.content] ELSE rApp
               /\ appTable' = SaveCache(k.op, appTable, a, k.content, now, written, stored)
               /\ calls' = [calls EXCEPT ![c] = IF written THEN Idle ELSE AfterRefusal(k)]
               /\ lastRet' = Ret(k.op, a, FALSE, IF written THEN CacheWriteOutcome(~warned) ELSE "err", TRUE, warned, [content |-> k.content], Absent)
               /\ UNCHANGED fileIdCache
    /\ UNCHANGED <<now, sessionCache, sessFolderCache, sessListCache, appFilesCache, rTrashed, rSess, sessOwner>>
    /\ UNCHANGED extVars

\* ------------------------------------------------------------ deleteApp
\* the six cacheDelete calls, then the PATCH {trashed: true} request is sent
DeleteAppStart(c, a) ==
    /\ calls[c] = Idle
    /\ appFilesCache' = appFilesCache \ {a}
    /\ sessFolderCache' = sessFolderCache \ {a}
    /\ sessListCache' = sessListCache \ {a}
    /\ fileIdCache' = fileIdCache \ {<<a, f>> : f \in FileNames}
    /\ IF ~token
       THEN /\ lastRet' = NotAuthenticated("deleteApp", a, FALSE, FALSE)
            /\ UNCHANGED calls
       ELSE /\ calls' = [calls EXCEPT ![c] = [op |-> "deleteApp", id |-> a]]
            /\ lastRet' = NoRet
    /\ UNCHANGED <<now, appTable, sessionCache, remoteVars>>
    /\ UNCHANGED extVars

DeleteAppResponse(c, rsp) ==
    /\ calls[c] # Idle
    /\ calls[c].op = "deleteApp"
    /\ rTrashed' = IF ~Refused(rsp) THEN rTrashed \cup {calls[c].id} ELSE rTrashed
    /\ calls' = [calls EXCEPT ![c] = IF ~Refused(rsp) THEN Idle ELSE AfterRefusal(calls[c])]
    /\ lastRet' = Ret("deleteApp", calls[c].id, FALSE, IF ~Refused(rsp) THEN "ok" ELSE "err", TRUE, FALSE, Absent, Absent)
    /\ UNCHANGED <<now, cacheVars, rApp, rSess, sessOwner>>
    /\ UNCHANGED extVars

\* ------------------------------------------------------------ sessions
\* the two shapes stored under session_<id>: getSession and saveSession store
\* {data, syncTime}, createSession stores the session file itself
Wrapped(doc, t) == [kind |-> "wrapped", data |-> doc, syncTime |-> t]
Raw(doc) == [kind |-> "raw", doc |-> doc]

\* cached.data and cached.syncTime of a stored entry
CachedData(e) == IF e.kind = "wrapped" THEN e.data ELSE [kind |-> "payload", v |-> e.doc.data]
CachedSyncTime(e) == IF e.kind = "wrapped" THEN e.syncTime ELSE Undefined

\* { ...x, syncTime }: the fields of a session file are copied; a payload that is
\* the empty object has no field to copy
SpreadWithSyncTime(x, t) ==
    IF x.kind = "doc"
    THEN [name |-> x.name, createdAt |-> x.createdAt, data |-> x.data, syncTime |-> t]
    ELSE [name |-> Undefined, createdAt |-> Undefined, data |-> Undefined, syncTime |-> t]

\* what the response to a read carries: the content Drive held when it served
\* the request, which is the content it holds now unless the request was
\* served earlier (got)
Carried(k, held) == IF "got" \in DOMAIN k THEN k.got ELSE held

\* getSession up to its await: the cache check
GetSessionStart(c, s, force) ==
    /\ calls[c] = Idle
    /\ LET cached == CacheGet(sessionCache[s])
       IN IF ServeFromCache(force, cached)
          THEN /\ lastRet' = Ret("getSession", s, force, "ok", FALSE, FALSE, Absent, SpreadWithSyncTime(CachedData(cached), CachedSyncTime(cached)))
               /\ UNCHANGED calls
          ELSE /\ calls' = [calls EXCEPT ![c] = [op |-> "getSession", id |-> s, force |-> force]]
               /\ lastRet' = NoRet
    /\ UNCHANGED <<now, cacheVars, remoteVars>>
    /\ UNCHANGED extVars

\* the response to getFileContent(sessionId); a missing file is an error response
GetSessionResponse(c, rsp, stored) ==
    /\ calls[c] # Idle
    /\ calls[c].op = "getSession"
    /\ LET k == calls[c]
           s == k.id
           doc == Carried(k, rSess[s])
       IN IF Refused(rsp) \/ doc = Absent
          THEN /\ lastRet' = Ret("getSession", s, k.force, "err", TRUE, FALSE, Absent, Absent)
               /\ UNCHANGED sessionCache
          ELSE /\ sessionCache' = IF stored THEN [sessionCache EXCEPT ![s] = Wrapped(doc, now)] ELSE sessionCache
               /\ lastRet' = Ret("getSession", s, k.force, CacheWriteOutcome(stored), TRUE, ~stored, Absent, SpreadWithSyncTime(doc, now))
    /\ calls' = [calls EXCEPT ![c] = IF Refused(rsp) \/ Carried(calls[c], rSess[calls[c].id]) = Absent THEN AfterRefusal(calls[c]) ELSE Idle]
    /\ UNCHANGED <<now, appTable, fileIdCache, sessFolderCache, sessListCache, appFilesCache, remoteVars>>
    /\ UNCHANGED extVars

\* saveSession up to its await: updateFile is sent
SaveSessionStart(c, s, doc) ==
    /\ calls[c] = Idle
    /\ calls' = [calls EXCEPT ![c] = [op |-> "saveSession", id |-> s, doc |-> doc]]
    /\ lastRet' = NoRet
    /\ UNCHANGED <<now, cacheVars, remoteVars>>
    /\ UNCHANGED extVars

\* the session cache saveSession leaves: cacheSet runs after the await, so only
\* when updateFile succeeded (written), and keeps the old entry when setItem throws
SessionCacheSetBeforeWrite(cache, s, doc, t, written, stored) ==
    IF stored THEN [cache EXCEPT ![s] = Wrapped(doc, t)] ELSE cache
SessionCacheNotSet(cache, s, doc, t, written, stored) == cache
SessionCacheAfterSave(cache, s, doc, t, written, stored) ==
    IF written /\ stored THEN [cache EXCEPT ![s] = Wrapped(doc, t)] ELSE cache

\* the response to updateFile(sessionId, ...)
SaveSessionResponse(c, rsp, stored) ==
    /\ calls[c] # Idle
    /\ calls[c].op = "saveSession"
    /\ LET k == calls[c]
           s == k.id
           written == ~Refused(rsp) /\ rSess[s] # Absent
       IN /\ rSess' = IF written THEN [rSess EXCEPT ![s] = k.doc] ELSE rSess
          /\ sessionCache' = SessionCacheAfterSave(sessionCache, s, k.doc, now, written, stored)
          /\ lastRet' = Ret("saveSession", s, FALSE, IF written THEN CacheWriteOutcome(stored) ELSE "err", TRUE, written /\ ~stored, k.doc, Absent)
    /\ calls' = [calls EXCEPT ![c] = IF ~Refused(rsp) /\ rSess[calls[c].id] # Absent THEN Idle ELSE AfterRefusal(calls[c])]
    /\ UNCHANGED <<now, appTable, fileIdCache, sessFolderCache, sessListCache, appFilesCache, rApp, rTrashed, sessOwner>>
    /\ UNCHANGED extVars

\* ------------------------------------------------------------ createSession
FreeSessIds == {s \in SessIds : rSess[s] = Absent}

\* createSession up to its first await.  getSessionsFolderId answers from its own
\* cache, or from findFile's file-id cache (and then caches the folder id), or
\* asks Drive; once it has answered, sessionData is built and createFile is sent.
CreateSessionStart(c, a, name, stored) ==
    /\ calls[c] = Idle
    /\ FreeSessIds # {}
    /\ LET known == a \in sessFolderCache \/ <<a, "sessions">> \in fileIdCache
       IN /\ IF ~token /\ ~known
             THEN /\ lastRet' = NotAuthenticated("createSession", a, FALSE, FALSE)
                  /\ UNCHANGED calls
             ELSE /\ calls' = [calls EXCEPT ![c] = [op |-> "createSession", id |-> a, name |-> name, pc |-> IF known THEN "createFile" ELSE "findFolder", createdAt |-> now]]
                  /\ lastRet' = NoRet
          /\ sessFolderCache' = IF known /\ stored THEN sessFolderCache \cup {a} ELSE sessFolderCache
    /\ UNCHANGED <<now, appTable, sessionCache, fileIdCache, sessListCache, appFilesCache, remoteVars>>
    /\ UNCHANGED extVars

\* a response to createSession: of the folder lookup, of the folder creation, or of
\* createFile, after which the session is cached and the session list invalidated
CreateSessionResponse(c, rsp, stored, stored2) ==
    /\ calls[c] # Idle
    /\ calls[c].op = "createSession"
    /\ LET k == calls[c]
           a == k.id
           s == CHOOSE x \in FreeSessIds : \A y \in FreeSessIds : x <= y
           sessionData == Doc(k.name, k.createdAt, EmptyObj)
       IN IF Refused(rsp)
          THEN /\ calls' = [calls EXCEPT ![c] = AfterRefusal(k)]
               /\ lastRet' = Ret("createSession", a, FALSE, "err", TRUE, FALSE, Absent, Absent)
               /\ UNCHANGED <<sessionCache, fileIdCache, sessFolderCache, sessListCache, rSess, sessOwner>>
          ELSE IF k.pc = "findFolder" /\ a \in rTrashed
          THEN /\ calls' = [calls EXCEPT ![c].pc = "createFolder"]
               /\ UNCHANGED <<sessionCache, fileIdCache, sessFolderCache, sessListCache, rSess, sessOwner, lastRet>>
          ELSE IF k.pc = "findFolder"
          THEN /\ fileIdCache' = IF stored THEN fileIdCache \cup {<<a, "sessions">>} ELSE fileIdCache
               /\ sessFolderCache' = IF stored2 THEN sessFolderCache \cup {a} ELSE sessFolderCache
               /\ calls' = [calls EXCEPT ![c].pc = "createFile", ![c].createdAt = now]
               /\ UNCHANGED <<sessionCache, sessListCache, rSess, sessOwner, lastRet>>
          ELSE IF k.pc = "createFolder"
          THEN /\ sessFolderCache' = IF stored THEN sessFolderCache \cup {a} ELSE sessFolderCache
               /\ calls' = [calls EXCEPT ![c].pc = "createFile", ![c].createdAt = now]
               /\ UNCHANGED <<sessionCache, fileIdCache, sessListCache, rSess, sessOwner, lastRet>>
          ELSE /\ FreeSessIds # {}
               /\ rSess' = [rSess EXCEPT ![s] = sessionData]
               /\ sessOwner' = [sessOwner EXCEPT ![s] = a]
               /\ sessionCache' = IF stored THEN [sessionCache EXCEPT ![s] = Raw(sessionData)] ELSE sessionCache
               /\ sessListCache' = sessListCache \ {a}
               /\ calls' = [calls EXCEPT ![c] = Idle]
               /\ lastRet' = Ret("createSession", a, FALSE, CacheWriteOutcome(stored), TRUE, ~stored, Absent, [id |-> s, name |-> k.name, data |-> sessionData])
               /\ UNCHANGED <<fileIdCache, sessFolderCache>>
    /\ UNCHANGED <<now, appTable, appFilesCache, rApp, rTrashed>>
    /\ UNCHANGED extVars

\* ------------------------------------------------------------ listSessions
\* listSessions up to its first await: getSessionsFolderId as in createSession,
\* then the listing request is sent
ListSessionsStart(c, a, stored) ==
    /\ calls[c] = Idle
    /\ LET known == a \in sessFolderCache \/ <<a, "sessions">> \in fileIdCache
       IN /\ IF ~token
             THEN /\ lastRet' = NotAuthenticated("listSessions", a, FALSE, FALSE)
                  /\ UNCHANGED calls
             ELSE /\ calls' = [calls EXCEPT ![c] = [op |-> "listSessions", id |-> a, pc |-> IF known THEN "list" ELSE "findFolder"]]
                  /\ lastRet' = NoRet
          /\ sessFolderCache' = IF known /\ stored THEN sessFolderCache \cup {a} ELSE sessFolderCache
    /\ UNCHANGED <<now, appTable, sessionCache, fileIdCache, sessListCache, appFilesCache, remoteVars>>
    /\ UNCHANGED extVars

\* the session files Drive lists in the sessions folder of app a (trashed=false)
ListedSessions(a) == {s \in SessIds : sessOwner[s] = a /\ rSess[s] # Absent /\ a \notin rTrashed}

\* a response to listSessions: of the folder lookup, of the folder creation, or of
\* the listing, after which the list is cached
ListSessionsResponse(c, rsp, stored, stored2) ==
    /\ calls[c] # Idle
    /\ calls[c].op = "listSessions"
    /\ LET k == calls[c]
           a == k.id
       IN IF Refused(rsp)
          THEN /\ calls' = [calls EXCEPT ![c] = AfterRefusal(k)]
               /\ lastRet' = Ret("listSessions", a, FALSE, "err", TRUE, FALSE, Absent, Absent)
               /\ UNCHANGED <<fileIdCache, sessFolderCache, sessListCache>>
          ELSE IF k.pc = "findFolder" /\ a \in rTrashed
          THEN /\ calls' = [calls EXCEPT ![c].pc = "createFolder"]
               /\ UNCHANGED <<fileIdCache, sessFolderCache, sessListCache, lastRet>>
          ELSE IF k.pc = "findFolder"
          THEN /\ fileIdCache' = IF stored THEN fileIdCache \cup {<<a, "sessions">>} ELSE fileIdCache
               /\ sessFolderCache' = IF stored2 THEN sessFolderCache \cup {a} ELSE sessFolderCache
               /\ calls' = [calls EXCEPT ![c].pc = "list"]
               /\ UNCHANGED <<sessListCache, lastRet>>
          ELSE IF k.pc = "createFolder"
          THEN /\ sessFolderCache' = IF stored THEN sessFolderCache \cup {a} ELSE sessFolderCache
               /\ calls' = [calls EXCEPT ![c].pc = "list"]
               /\ UNCHANGED <<fileIdCache, sessListCache, lastRet>>
          ELSE /\ sessListCache' = IF stored THEN sessListCache \cup {a} ELSE sessListCache
               /\ calls' = [calls EXCEPT ![c] = Idle]
               /\ lastRet' = Ret("listSessions", a, FALSE, "ok", TRUE, ~stored, Absent, [ids |-> ListedSessions(a)])
               /\ UNCHANGED <<fileIdCache, sessFolderCache>>
    /\ UNCHANGED <<now, appTable, sessionCache, appFilesCache, remoteVars>>
    /\ UNCHANGED extVars

\* ------------------------------------------------------------ createApp
\* the app folders createApp may still be given by Drive
FreshAppIds == {a \in AppIds : a \notin SyncApps /\ a \notin created /\ a <= Cardinality(SyncApps) + MaxNewApps}

\* what createApp writes: the manifest {name, version, params, sessionSchema}
\* (valued by its name), params = {}, and the template or the default page
NewManifest(name) == name
NewAppHtml(name, template) == IF template = Null THEN name ELSE template
NewFiles(name, template) == [manifest |-> NewManifest(name), params |-> EmptyObj, appHtml |-> NewAppHtml(name, template)]

\* createApp up to its first await: ensureRootFolder answers from this.rootFolderId
\* or from localStorage, and then the app folder is requested; or it asks Drive
CreateAppStart(c, name, template) ==
    /\ calls[c] = Idle
    /\ FreshAppIds # {}
    /\ IF ~token
       THEN /\ lastRet' = NotAuthenticated("createApp", 0, FALSE, FALSE)
            /\ UNCHANGED calls
       ELSE /\ calls' = [calls EXCEPT ![c] = [op |-> "createApp", id |-> 0, name |-> name, template |-> template, pc |-> IF rootFolderId \/ rootCache THEN "folder" ELSE "root", done |-> {}, warned |-> FALSE]]
            /\ lastRet' = NoRet
    /\ rootFolderId' = (rootFolderId \/ rootCache)
    /\ UNCHANGED <<now, cacheVars, remoteVars, created, rootCache, hostVars, authVars, fmtVars, guestVars, pageVars>>

\* a response to createApp: of the search for the root folder, of the creation of
\* the app folder or of its sessions folder, or of one of the three createFile
\* calls; after the last of these the file ids and the bundle are cached.
\* warned: one of the cache writes of the call threw
CreateAppResponse(c, f, rsp, stored, stored2) ==
    /\ calls[c] # Idle
    /\ calls[c].op = "createApp"
    /\ calls[c].pc = "files" => f \notin calls[c].done
    /\ LET k == calls[c]
           a == k.id
           new == CHOOSE x \in FreshAppIds : \A y \in FreshAppIds : x <= y
           files == NewFiles(k.name, k.template)
           done2 == k.done \cup {f}
       IN IF Refused(rsp)
          THEN /\ calls' = [calls EXCEPT ![c] = AfterRefusal(k)]
               /\ lastRet' = Ret("createApp", a, FALSE, "err", TRUE, FALSE, Absent, Absent)
               /\ UNCHANGED <<cacheVars, rApp, createVars>>
          ELSE IF k.pc = "root"
          THEN /\ rootFolderId' = TRUE
               /\ rootCache' = stored
               /\ calls' = [calls EXCEPT ![c].pc = "folder"]
               /\ UNCHANGED <<cacheVars, rApp, created, lastRet>>
          ELSE IF k.pc = "folder"
          THEN /\ created' = created \cup {new}
               /\ rApp' = [rApp EXCEPT ![new] = [manifest |-> Null, params |-> Null, appHtml |-> Null]]
               /\ calls' = [calls EXCEPT ![c].pc = "sessions", ![c].id = new]
               /\ UNCHANGED <<cacheVars, rootFolderId, rootCache, lastRet>>
          ELSE IF k.pc = "sessions"
          THEN /\ sessFolderCache' = IF stored THEN sessFolderCache \cup {a} ELSE sessFolderCache
               /\ calls' = [calls EXCEPT ![c].pc = "files", ![c].warned = ~stored]
               /\ UNCHANGED <<appTable, sessionCache, fileIdCache, sessListCache, appFilesCache, rApp, createVars, lastRet>>
          ELSE IF done2 # FileNames
          THEN /\ rApp' = [rApp EXCEPT ![a][f] = files[f]]
               /\ calls' = [calls EXCEPT ![c].done = done2]
               /\ UNCHANGED <<cacheVars, createVars, lastRet>>
          ELSE /\ rApp' = [rApp EXCEPT ![a][f] = files[f]]
               /\ fileIdCache' = IF stored THEN fileIdCache \cup {<<a, g>> : g \in FileNames} ELSE fileIdCache
               /\ appFilesCache' = IF stored2 THEN appFilesCache \cup {a} ELSE appFilesCache
               /\ calls' = [calls EXCEPT ![c] = Idle]
               /\ lastRet' = Ret("createApp", a, FALSE, "ok", TRUE, k.warned \/ ~stored \/ ~stored2, files, [id |-> a, name |-> k.name])
               /\ UNCHANGED <<appTable, sessionCache, sessFolderCache, sessListCache, createVars>>
    /\ UNCHANGED <<now, rTrashed, rSess, sessOwner, hostVars, authVars, fmtVars, guestVars, pageVars>>

\* ------------------------------------------------------------ AppRunner
\* the DriveClient calls of the runner's asynchronous methods go through this slot;
\* this.appId is the app of the page
HostSlot == CHOOSE c \in Slots : TRUE
HostAppId == CHOOSE a \in SyncApps : TRUE
NoSession == [kind |-> "none"]
HostIdle == [op |-> "idle", step |-> "none", arg |-> 0]
NoMsg == [type |-> "none"]
NoSent == [kind |-> "none"]
\* payloads of update-session: null, or a document
GuestDatas == {Null} \cup (1..MaxGuestData)
MsgTypes == {"ready", "update-session", "other"}

\* a value that passes JavaScript's x || y and if (x): not null, not undefined
\* (objects, the empty one too, are truthy)
Truthy(x) == x \notin {Null, Undefined}

\* no continuation of a runner method is due: the method under way, if any, is
\* suspended at an await on a request to Drive.  Events of the page (messages,
\* clicks, responses to saves) are handled only then
HostStable == hostPc.op = "idle" \/ calls[HostSlot] # Idle

\* handleMessage: if (!this.iframe || event.source !== this.iframe.contentWindow) return
AcceptsAnySource(frame, src) == frame # 0
Accepts(frame, src) == frame # 0 /\ src = frame

\* this.iframe?.contentWindow: an iframe has a window only while it is in the
\* document; the iframe of a runner that has been removed has none
ContentWindowKept(frame, conn) == frame
ContentWindow(frame, conn) == IF conn THEN frame ELSE 0

\* this.currentSession?.data || {}
InitSessionAlwaysEmpty(cs) == EmptyObj
InitSession(cs) == IF cs.kind = "session" /\ Truthy(cs.data) THEN cs.data ELSE EmptyObj

\* the session ids of the posted messages, after a step that may have posted one
PostedAfter(p, box, box2, cs) ==
    IF Len(box2) = Len(box) THEN p
    ELSE Append(p, IF box2[Len(box2)].type = "init" /\ cs.kind = "session" THEN cs.id ELSE 0)

\* sendInitToIframe: nothing without an iframe, else one init message
SendInit(box, frame, m, p, cs) ==
    IF frame = 0 THEN box
    ELSE Append(box, [to |-> frame, type |-> "init", manifest |-> m, params |-> p, session |-> InitSession(cs), success |-> FALSE, error |-> FALSE])

\* sendMessageToIframe({type: 'session-saved', success, error})
SendSavedOnSuccessOnly(box, frame, success) ==
    IF frame = 0 \/ ~success THEN box
    ELSE Append(box, [to |-> frame, type |-> "session-saved", manifest |-> Null, params |-> Null, session |-> Null, success |-> success, error |-> ~success])
SendSaved(box, frame, success) ==
    IF frame = 0 THEN box
    ELSE Append(box, [to |-> frame, type |-> "session-saved", manifest |-> Null, params |-> Null, session |-> Null, success |-> success, error |-> ~success])

\* handleSessionUpdate: this.currentSession.data = data
SessionUnchangedByUpdate(cs, data) == cs
SessionAfterUpdate(cs, data) == [cs EXCEPT !.data = data]

\* saveCurrentSession up to its await: driveClient.saveSession(id, {name, createdAt, data})
\* is started; st is the state of the call
WritesCoalesced(w, cs) ==
    IF \E i \in 1..Len(w) : w[i].st = "flight" THEN w
    ELSE Append(w, [id |-> cs.id, doc |-> Doc(cs.name, cs.createdAt, cs.data), st |-> "flight"])
WritesAfterUpdate(w, cs) ==
    Append(w, [id |-> cs.id, doc |-> Doc(cs.name, cs.createdAt, cs.data), st |-> "flight"])

\* currentSession after a save has settled: saveCurrentSession does not touch it
SessionRolledBack(cs, w, written) ==
    IF written \/ cs.kind = "none" THEN cs ELSE [cs EXCEPT !.data = Undefined]
SessionAfterSave(cs, w, written) == cs

\* a window message is delivered; handleMessage runs while the listener is registered
HandleMessage(src, type, data) ==
    /\ mounted
    /\ HostStable
    /\ msgs < MaxMsgs
    /\ msgs' = msgs + 1
    /\ lastMsg' = [type |-> type, src |-> src, data |-> data, accepted |-> connected /\ Accepts(iframe, src)]
    /\ IF ~connected \/ ~Accepts(iframe, src) \/ type = "other"
       THEN UNCHANGED <<currentSession, writes, outbox>>
       ELSE IF type = "ready"
       THEN /\ outbox' = SendInit(outbox, iframe, hostManifest, hostParams, currentSession)
            /\ UNCHANGED <<currentSession, writes>>
       ELSE IF currentSession.kind = "none"
       THEN UNCHANGED <<currentSession, writes, outbox>>
       ELSE /\ currentSession' = SessionAfterUpdate(currentSession, data)
            /\ writes' = WritesAfterUpdate(writes, SessionAfterUpdate(currentSession, data))
            /\ UNCHANGED outbox
    /\ postedFor' = PostedAfter(postedFor, outbox, outbox', currentSession')
    /\ UNCHANGED <<now, cacheVars, remoteVars, calls, lastRet, createVars, authVars, fmtVars, guestRead, sent, pageVars>>
    /\ UNCHANGED <<mounted, connected, iframe, frames, loading, hostManifest, hostParams, sessions, hostPc>>

\* the response to the updateFile of write i: saveSession caches the document,
\* then saveCurrentSession tells the guest; a failure is caught and told as well
HostSaveResponse(i, rsp, stored) ==
    /\ HostStable
    /\ i \in 1..Len(writes)
    /\ writes[i].st = "flight"
    /\ LET w == writes[i]
           written == ~Refused(rsp) /\ rSess[w.id] # Absent
       IN /\ rSess' = IF written THEN [rSess EXCEPT ![w.id] = w.doc] ELSE rSess
          /\ sessionCache' = SessionCacheAfterSave(sessionCache, w.id, w.doc, now, written, stored)
          /\ writes' = [writes EXCEPT ![i].st = IF ~written THEN "err" ELSE IF stored THEN "ok" ELSE "unstored"]
          /\ outbox' = SendSaved(outbox, ContentWindow(iframe, connected), written)
          /\ currentSession' = SessionAfterSave(currentSession, w, written)
    /\ postedFor' = PostedAfter(postedFor, outbox, outbox', currentSession')
    /\ UNCHANGED <<now, appTable, fileIdCache, sessFolderCache, sessListCache, appFilesCache, rApp, rTrashed, sessOwner, calls, lastRet, createVars, authVars, fmtVars, guestRead, sent, pageVars>>
    /\ UNCHANGED <<mounted, connected, iframe, frames, loading, hostManifest, hostParams, sessions, hostPc, msgs, lastMsg>>

\* the currentSession loadSession and createSession build:
\* { id: sessionId, ...session } and { id: session.id, ...session.data }
LoadedSession(id, val) == [kind |-> "session", id |-> id, name |-> val.name, createdAt |-> val.createdAt, data |-> val.data, syncTime |-> val.syncTime]
CreatedSession(val) == [kind |-> "session", id |-> val.id, name |-> val.data.name, createdAt |-> val.data.createdAt, data |-> val.data.data, syncTime |-> Undefined]

\* this.iframe after render(): the iframe is rendered only when loading is false,
\* and each render makes a new one
RenderedIframe(ld, n) == IF ld THEN 0 ELSE n + 1
RenderedFrames(ld, n) == IF ld THEN n ELSE n + 1

\* a runner method goes on to its next DriveClient call, or ends (next = HostIdle):
\* loadApp and handleReload end with loading = false and render(),
\* handleSessionChange and handleNewSession with sendInitToIframe().  cs is
\* currentSession, frame and n the iframe and the count after the renders of the step
Proceed(next, cs, replaced, frame, n) ==
    /\ hostPc' = next
    /\ currentSession' = cs
    /\ lastMsg' = IF replaced THEN NoMsg ELSE lastMsg
    /\ lastRet' = NoRet
    /\ IF next.op # "idle"
       THEN /\ iframe' = frame
            /\ frames' = n
            /\ UNCHANGED <<loading, outbox>>
       ELSE IF hostPc.op \in {"loadApp", "reload"}
       THEN /\ loading' = FALSE
            /\ iframe' = n + 1
            /\ frames' = n + 1
            /\ UNCHANGED outbox
       ELSE /\ outbox' = SendInit(outbox, ContentWindow(frame, connected), hostManifest, hostParams, cs)
            /\ iframe' = frame
            /\ frames' = n
            /\ UNCHANGED loading
    /\ postedFor' = PostedAfter(postedFor, outbox, outbox', cs)
    /\ UNCHANGED <<now, cacheVars, remoteVars, calls, createVars, authVars, fmtVars, guestRead, sent, pageVars, mounted, connected, writes, msgs>>

\* connectedCallback: _mounted, loadApp() up to its first await (loading, render),
\* and the message listener
ConnectedCallback ==
    /\ ~mounted
    /\ calls[HostSlot] = Idle
    /\ mounted' = TRUE
    /\ connected' = TRUE
    /\ loading' = TRUE
    /\ iframe' = RenderedIframe(TRUE, frames)
    /\ hostPc' = [op |-> "loadApp", step |-> "getAppFiles", arg |-> 0]
    /\ lastRet' = NoRet
    /\ UNCHANGED <<now, cacheVars, remoteVars, calls, createVars, authVars, fmtVars, guestVars, pageVars>>
    /\ UNCHANGED <<frames, hostManifest, hostParams, sessions, currentSession, writes, outbox, msgs, lastMsg>>

\* the router replaces the page: the runner leaves the document with its iframe,
\* disconnectedCallback removes the message listener (saveTimeout is never set).
\* Calls in flight are not cancelled
DisconnectedCallback ==
    /\ connected
    /\ HostStable
    /\ connected' = FALSE
    /\ UNCHANGED <<now, cacheVars, remoteVars, calls, lastRet, createVars, authVars, fmtVars, guestVars, pageVars>>
    /\ UNCHANGED <<mounted, iframe, frames, loading, hostManifest, hostParams, sessions, currentSession, hostPc, writes, outbox, msgs, lastMsg>>

\* the session-manager asks for session s: handleSessionChange up to loadSession's await
HandleSessionChange(s) ==
    /\ mounted
    /\ connected
    /\ hostPc = HostIdle
    /\ calls[HostSlot] = Idle
    /\ s \in sessions
    /\ Len(outbox) < MaxOutbox
    /\ hostPc' = [op |-> "sessionChange", step |-> "loadSession", arg |-> s]
    /\ lastRet' = NoRet
    /\ UNCHANGED <<now, cacheVars, remoteVars, calls, createVars, authVars, fmtVars, guestVars, pageVars>>
    /\ UNCHANGED <<mounted, connected, iframe, frames, loading, hostManifest, hostParams, sessions, currentSession, writes, outbox, msgs, lastMsg>>

\* the session-manager asks for a new session: handleNewSession with a name from
\* the prompt, up to createSession's await
HandleNewSession(name) ==
    /\ mounted
    /\ connected
    /\ hostPc = HostIdle
    /\ calls[HostSlot] = Idle
    /\ FreeSessIds # {}
    /\ frames < MaxFrames
    /\ Len(outbox) < MaxOutbox
    /\ hostPc' = [op |-> "newSession", step |-> "createSession", arg |-> name]
    /\ lastRet' = NoRet
    /\ UNCHANGED <<now, cacheVars, remoteVars, calls, createVars, authVars, fmtVars, guestVars, pageVars>>
    /\ UNCHANGED <<mounted, connected, iframe, frames, loading, hostManifest, hostParams, sessions, currentSession, writes, outbox, msgs, lastMsg>>

\* the reload button (rendered when loading is false): handleReload up to its first await
HandleReload ==
    /\ mounted
    /\ connected
    /\ hostPc = HostIdle
    /\ calls[HostSlot] = Idle
    /\ ~loading
    /\ frames < MaxFrames
    /\ loading' = TRUE
    /\ iframe' = RenderedIframe(TRUE, frames)
    /\ hostPc' = [op |-> "reload", step |-> "getAppFiles", arg |-> 0]
    /\ lastRet' = NoRet
    /\ UNCHANGED <<now, cacheVars, remoteVars, calls, createVars, authVars, fmtVars, guestVars, pageVars>>
    /\ UNCHANGED <<mounted, connected, frames, hostManifest, hostParams, sessions, currentSession, writes, outbox, msgs, lastMsg>>

\* loadApp / handleReload after await getAppFiles
HostAfterGetAppFiles ==
    /\ hostPc.step = "getAppFiles"
    /\ calls[HostSlot] = Idle
    /\ lastRet.op = "getAppFiles"
    /\ LET ok == lastRet.status = "ok"
           next == IF ~ok THEN HostIdle
                   ELSE IF hostPc.op = "loadApp" THEN [hostPc EXCEPT !.step = "listSessions"]
                   ELSE IF currentSession.kind = "session" THEN [hostPc EXCEPT !.step = "loadSession", !.arg = currentSession.id]
                   ELSE HostIdle
       IN /\ hostManifest' = IF ok THEN lastRet.val.manifest ELSE hostManifest
          /\ hostParams' = IF ~ok THEN hostParams ELSE IF Truthy(lastRet.val.params) THEN lastRet.val.params ELSE EmptyObj
          /\ Proceed(next, currentSession, FALSE, iframe, frames)
    /\ UNCHANGED sessions

\* loadApp after await listSessions: the first listed session is loaded, or a
\* session Default created.  Drive lists by modifiedTime, which the model does
\* not keep: any listed session may be first
HostAfterListSessions ==
    /\ hostPc.step = "listSessions"
    /\ calls[HostSlot] = Idle
    /\ lastRet.op = "listSessions"
    /\ IF lastRet.status # "ok"
       THEN /\ Proceed(HostIdle, currentSession, FALSE, iframe, frames)
            /\ UNCHANGED sessions
       ELSE /\ sessions' = lastRet.val.ids
            /\ IF lastRet.val.ids = {}
               THEN Proceed([hostPc EXCEPT !.step = "createSession", !.arg = 1], currentSession, FALSE, iframe, frames)
               ELSE \E s \in lastRet.val.ids : Proceed([hostPc EXCEPT !.step = "loadSession", !.arg = s], currentSession, FALSE, iframe, frames)
    /\ UNCHANGED <<hostManifest, hostParams>>

\* loadSession after await getSession (a failure is caught there), and what
\* follows it in loadApp, handleReload or handleSessionChange
HostAfterGetSession ==
    /\ hostPc.step = "loadSession"
    /\ calls[HostSlot] = Idle
    /\ lastRet.op = "getSession"
    /\ IF lastRet.status = "ok"
       THEN Proceed(HostIdle, LoadedSession(hostPc.arg, lastRet.val), TRUE, iframe, frames)
       ELSE Proceed(HostIdle, currentSession, FALSE, iframe, frames)
    /\ UNCHANGED <<hostManifest, hostParams, sessions>>

\* createSession (of the runner) after await driveClient.createSession: the new
\* session becomes current and the list is asked for; a failure is caught and
\* the caller goes on
HostAfterCreateSession ==
    /\ hostPc.step = "createSession"
    /\ calls[HostSlot] = Idle
    /\ lastRet.op = "createSession"
    /\ IF lastRet.status = "ok"
       THEN Proceed([hostPc EXCEPT !.step = "listAfterCreate"], CreatedSession(lastRet.val), TRUE, iframe, frames)
       ELSE Proceed(HostIdle, currentSession, FALSE, iframe, frames)
    /\ UNCHANGED <<hostManifest, hostParams, sessions>>

\* createSession after await listSessions: this.sessions and render(); a failure
\* is caught; then the caller goes on
HostAfterListAfterCreate ==
    /\ hostPc.step = "listAfterCreate"
    /\ calls[HostSlot] = Idle
    /\ lastRet.op = "listSessions"
    /\ IF lastRet.status = "ok"
       THEN /\ sessions' = lastRet.val.ids
            /\ Proceed(HostIdle, currentSession, FALSE, RenderedIframe(loading, frames), RenderedFrames(loading, frames))
       ELSE /\ UNCHANGED sessions
            /\ Proceed(HostIdle, currentSession, FALSE, iframe, frames)
    /\ UNCHANGED <<hostManifest, hostParams>>

\* ------------------------------------------------------------ the guest page
\* the session the page in the iframe shows: that of the last init it received
GuestShows ==
    LET inits == {i \in 1..guestRead : outbox[i].type = "init" /\ outbox[i].to = iframe}
    IN IF inits = {} THEN 0 ELSE postedFor[CHOOSE i \in inits : \A j \in inits : j <= i]

\* the page receives the next message posted to it
GuestReceives ==
    /\ guestRead < Len(outbox)
    /\ guestRead' = guestRead + 1
    /\ UNCHANGED <<now, cacheVars, remoteVars, calls, lastRet, createVars, hostVars, authVars, fmtVars, postedFor, sent, pageVars>>

\* the page, showing a session, posts update-session with data d; the message
\* is queued for the runner's window
GuestSends(d) ==
    /\ connected
    /\ iframe # 0
    /\ GuestShows # 0
    /\ msgs < MaxMsgs
    /\ IF sent = NoSent THEN TRUE ELSE sent.n < msgs
    /\ sent' = [kind |-> "update-session", src |-> iframe, data |-> d, shows |-> GuestShows, n |-> msgs]
    /\ UNCHANGED <<now, cacheVars, remoteVars, calls, lastRet, createVars, hostVars, authVars, fmtVars, postedFor, guestRead, pageVars>>

\* the queued message is delivered to the runner
DeliverSent ==
    /\ sent # NoSent
    /\ sent.n = msgs
    /\ HandleMessage(sent.src, "update-session", sent.data)

\* ------------------------------------------------------------ Drive
\* Drive serves the getFileContent request of a getSession, or of one file of a
\* getAppFiles: it reads the file, and the response is on its way
DriveServesSession(c) ==
    /\ calls[c] # Idle
    /\ calls[c].op = "getSession"
    /\ "got" \notin DOMAIN calls[c]
    /\ calls' = [calls EXCEPT ![c] = [op |-> "getSession", id |-> calls[c].id, force |-> calls[c].force, got |-> rSess[calls[c].id]]]
    /\ UNCHANGED <<now, cacheVars, remoteVars, lastRet>>
    /\ UNCHANGED extVars

DriveServesFile(c, f) ==
    /\ calls[c] # Idle
    /\ calls[c].op = "getAppFiles"
    /\ calls[c].ch[f].st = "read"
    /\ calls' = [calls EXCEPT ![c].ch[f] = [st |-> "served", v |-> rApp[calls[c].id][f]]]
    /\ UNCHANGED <<now, cacheVars, remoteVars, lastRet>>
    /\ UNCHANGED extVars

\* ------------------------------------------------------------ localStorage
\* the string under session_<s>, or under the key of the bundle table, is
\* replaced from outside DriveClient by one JSON.parse rejects
CorruptSessionEntry(s) ==
    /\ sessionCache[s] # Unparsable
    /\ sessionCache' = [sessionCache EXCEPT ![s] = Unparsable]
    /\ UNCHANGED <<now, appTable, fileIdCache, sessFolderCache, sessListCache, appFilesCache, remoteVars, calls, lastRet>>
    /\ UNCHANGED extVars

CorruptAppTable ==
    /\ appTable # UnparsableTable
    /\ appTable' = UnparsableTable
    /\ UNCHANGED <<now, sessionCache, fileIdCache, sessFolderCache, sessListCache, appFilesCache, remoteVars, calls, lastRet>>
    /\ UNCHANGED extVars

\* ------------------------------------------------------------ formatSyncTime
\* `${n}m ago`: the decimal digits of n, then the unit and " ago"
Ago(n, unit) == ToString(n) \o unit \o " ago"

\* Math.floor(seconds / 60) and the like, taken on the rounded value before it
FormatSyncTimeRounded(ts, clock) ==
    IF ts \in {Null, Undefined, 0} THEN ""
    ELSE LET diff == clock - ts
             seconds == (diff + 500) \div 1000
             minutes == (seconds + 30) \div 60
             hours == (minutes + 30) \div 60
             days == (hours + 12) \div 24
         IN IF seconds < 60 THEN "just now"
            ELSE IF minutes < 60 THEN Ago(minutes, "m")
            ELSE IF hours < 24 THEN Ago(hours, "h")
            ELSE Ago(days, "d")

\* formatSyncTime(timestamp) with Date.now() = clock
FormatSyncTime(ts, clock) ==
    IF ts \in {Null, Undefined, 0} THEN ""
    ELSE LET diff == clock - ts
             seconds == diff \div 1000
             minutes == seconds \div 60
             hours == minutes \div 60
             days == hours \div 24
         IN IF seconds < 60 THEN "just now"
            ELSE IF minutes < 60 THEN Ago(minutes, "m")
            ELSE IF hours < 24 THEN Ago(hours, "h")
            ELSE Ago(days, "d")

\* the call this.formatSyncTime(this.syncTime) made by render
FormatSyncTimeCall ==
    /\ syncText = NotFormatted
    /\ syncText' = FormatSyncTime(timestamp, dateNow)
    /\ UNCHANGED <<now, cacheVars, remoteVars, calls, lastRet, createVars, hostVars, authVars, guestVars, pageVars, timestamp, dateNow>>

\* ------------------------------------------------------------ GoogleAuth
\* the token expires or signOut removes it (v = FALSE), handleCallback stores a
\* new one (v = TRUE).  The credential changes between the calls of DriveClient
SetToken(v) ==
    /\ token # v
    /\ \A c \in Slots : calls[c] = Idle
    /\ \A i \in 1..Len(writes) : writes[i].st # "flight"
    /\ token' = v
    /\ UNCHANGED <<now, cacheVars, remoteVars, calls, lastRet, createVars, hostVars, fmtVars, guestVars, pageVars>>

\* the items of sessionStorage and the clock of getToken.  Date.now() is dateNow;
\* it advances by the minute, the interval of onAuthChange's check
CheckInterval == 60000
ExpiryBuffer == 300000
Tokens == 1..MaxTokens
\* expires_in of the callback URL, in seconds: absent, or a number that puts
\* the end of the buffer at the moment of the callback or a minute later
ExpiresIns == {Null, 300, 360}

\* parseInt(x, 10): NaN for a missing parameter and for the text "NaN"
ParseInt(x) == IF x \in {Null, NaN} THEN NaN ELSE x
\* a + b, a * b and a > b of JavaScript numbers: NaN gives NaN, and no
\* comparison with NaN holds
Plus(a, b) == IF a = NaN \/ b = NaN THEN NaN ELSE a + b
Mult(a, b) == IF a = NaN \/ b = NaN THEN NaN ELSE a * b
Greater(a, b) == a # NaN /\ b # NaN /\ a > b

\* the clock advances
AuthTick ==
    /\ dateNow < MaxMinutes * CheckInterval
    /\ dateNow' = dateNow + CheckInterval
    /\ UNCHANGED <<now, cacheVars, remoteVars, calls, lastRet, createVars, hostVars, authVars, guestVars, timestamp, syncText>>
    /\ UNCHANGED <<thisAppId, editor, sessionStorage, authRet>>

\* handleCallback with access_token = tok and expires_in = exp in the URL
\* fragment (Null: the parameter is absent)
HandleCallback(tok, exp) ==
    /\ IF tok # Null
       THEN /\ sessionStorage' = [sessionStorage EXCEPT ![tokenKey] = tok, ![expiryKey] = Plus(dateNow, Mult(ParseInt(exp), 1000))]
            /\ authRet' = [op |-> "handleCallback", val |-> 1]
       ELSE /\ authRet' = [op |-> "handleCallback", val |-> 0]
            /\ UNCHANGED sessionStorage
    /\ UNCHANGED <<now, cacheVars, remoteVars, calls, lastRet, createVars, hostVars, authVars, fmtVars, guestVars, thisAppId, editor>>

\* signOut: both items are removed
SignedOut == [k \in {tokenKey, expiryKey} |-> Null]

\* what getToken returns, and sessionStorage after it
GetTokenResult(store, t) ==
    IF store[tokenKey] = Null \/ store[expiryKey] = Null THEN Null
    ELSE IF Greater(t, Plus(ParseInt(store[expiryKey]), -ExpiryBuffer)) THEN Null
    ELSE store[tokenKey]
GetTokenStorage(store, t) ==
    IF store[tokenKey] = Null \/ store[expiryKey] = Null THEN store
    ELSE IF Greater(t, Plus(ParseInt(store[expiryKey]), -ExpiryBuffer)) THEN SignedOut
    ELSE store

GetToken ==
    /\ authRet' = [op |-> "getToken", val |-> GetTokenResult(sessionStorage, dateNow)]
    /\ sessionStorage' = GetTokenStorage(sessionStorage, dateNow)
    /\ UNCHANGED <<now, cacheVars, remoteVars, calls, lastRet, createVars, hostVars, authVars, fmtVars, guestVars, thisAppId, editor>>

\* isSignedIn: this.getToken() !== null
IsSignedIn ==
    /\ authRet' = [op |-> "isSignedIn", val |-> IF GetTokenResult(sessionStorage, dateNow) # Null THEN 1 ELSE 0]
    /\ sessionStorage' = GetTokenStorage(sessionStorage, dateNow)
    /\ UNCHANGED <<now, cacheVars, remoteVars, calls, lastRet, createVars, hostVars, authVars, fmtVars, guestVars, thisAppId, editor>>

SignOut ==
    /\ sessionStorage' = SignedOut
    /\ authRet' = [op |-> "signOut", val |-> Null]
    /\ UNCHANGED <<now, cacheVars, remoteVars, calls, lastRet, createVars, hostVars, authVars, fmtVars, guestVars, thisAppId, editor>>

\* GoogleAuth on its own: callbacks, calls and the clock
NextToken ==
    \/ AuthTick
    \/ \E tok \in Tokens \cup {Null}, exp \in ExpiresIns : HandleCallback(tok, exp)
    \/ GetToken
    \/ IsSignedIn
    \/ SignOut

SpecToken == Init /\ [][NextToken]_vars

\* ------------------------------------------------------------ AppEditor
\* a call of saveAppHtml made by the editor is under way in slot c
SaveInFlight(c) == calls[c] # Idle /\ calls[c].op = "saveAppHtml"
LoadInFlight(c) == calls[c] # Idle /\ calls[c].op = "getAppFiles"

\* loadApp has rendered the loading view and is about to call getAppFiles
EditorLoadDue ==
    /\ editor.mounted
    /\ editor.loading
    /\ lastRet = NoRet
    /\ \A c \in DOMAIN calls : ~LoadInFlight(c)

\* no method of the editor has a line to run: events of the page are handled then
EditorStable == lastRet = NoRet /\ ~EditorLoadDue

\* handleSave: if (this.saving) return
SaveNeverBlocked(saving) == FALSE
SaveBlocked(saving) == saving

\* the dirty flag after the await of saveAppHtml has returned: this.dirty = false
DirtyAfterSave(ed, content) == FALSE

\* connectedCallback: _mounted, and loadApp up to its await (loading, render)
EditorConnectedCallback ==
    /\ ~editor.mounted
    /\ lastRet = NoRet
    /\ editor' = [editor EXCEPT !.mounted = TRUE, !.loading = TRUE]
    /\ UNCHANGED <<now, cacheVars, remoteVars, calls, lastRet, createVars, hostVars, authVars, fmtVars, guestVars>>
    /\ UNCHANGED <<thisAppId, sessionStorage, authRet>>

\* loadApp after await getAppFiles: the html and the manifest on success, an
\* alert on failure; then loading = false, dirty = false and render
EditorAfterGetAppFiles ==
    /\ editor.mounted
    /\ lastRet.op = "getAppFiles"
    /\ LET ok == lastRet.status = "ok"
           html == IF ~ok THEN editor.appHtml ELSE IF Truthy(lastRet.val.appHtml) THEN lastRet.val.appHtml ELSE EmptyText
           m == IF ~ok THEN editor.manifest ELSE IF Truthy(lastRet.val.manifest) THEN lastRet.val.manifest ELSE UntitledManifest
       IN editor' = [editor EXCEPT !.appHtml = html, !.manifest = m, !.loading = FALSE, !.dirty = FALSE,
                                   !.synced = IF ok THEN html ELSE editor.synced]
    /\ lastRet' = NoRet
    /\ UNCHANGED <<now, cacheVars, remoteVars, calls, createVars, hostVars, authVars, fmtVars, guestVars>>
    /\ UNCHANGED <<thisAppId, sessionStorage, authRet>>

\* the input event of the textarea, which is rendered when loading is false
HandleInput(value) ==
    /\ editor.mounted
    /\ ~editor.loading
    /\ EditorStable
    /\ editor' = [editor EXCEPT !.appHtml = value, !.dirty = TRUE]
    /\ UNCHANGED <<now, cacheVars, remoteVars, calls, lastRet, createVars, hostVars, authVars, fmtVars, guestVars>>
    /\ UNCHANGED <<thisAppId, sessionStorage, authRet>>

\* a click on Save: handleSave up to its await, with saveAppHtml(appId, appHtml)
\* up to the request it sends (findFile answers from the file-id cache, or its
\* lookup is sent).  The click does nothing while saving is true
HandleSave(c) ==
    /\ editor.mounted
    /\ EditorStable
    /\ calls[c] = Idle
    /\ IF SaveBlocked(editor.saving)
       THEN UNCHANGED <<editor, calls, lastRet>>
       ELSE /\ editor' = [editor EXCEPT !.saving = TRUE]
            /\ calls' = [calls EXCEPT ![c] = [op |-> "saveAppHtml", id |-> thisAppId, content |-> editor.appHtml,
                                              pc |-> IF <<thisAppId, "appHtml">> \in fileIdCache THEN "update" ELSE "find"]]
            /\ lastRet' = NoRet
    /\ UNCHANGED <<now, cacheVars, remoteVars, createVars, hostVars, authVars, fmtVars, guestVars>>
    /\ UNCHANGED <<thisAppId, sessionStorage, authRet>>

\* handleSave after await saveAppHtml: dirty = false when it succeeded, an alert
\* when it failed; then saving = false
EditorAfterSave ==
    /\ lastRet.op = "saveAppHtml"
    /\ LET ok == lastRet.status = "ok"
       IN editor' = [editor EXCEPT !.saving = FALSE,
                                   !.dirty = IF ok THEN DirtyAfterSave(editor, lastRet.arg.content) ELSE editor.dirty,
                                   !.synced = IF ok THEN lastRet.arg.content ELSE editor.synced,
                                   !.settled = IF ok THEN "ok" ELSE "err"]
    /\ lastRet' = NoRet
    /\ UNCHANGED <<now, cacheVars, remoteVars, calls, createVars, hostVars, authVars, fmtVars, guestVars>>
    /\ UNCHANGED <<thisAppId, sessionStorage, authRet>>

\* ------------------------------------------------------------ specifications
\* DriveClient.setAppCache(appId, data) called on its own, as getAppFiles and
\* saveAppHtml call it; the result records which ids the call removed
SetAppCacheCall(appId, stored) ==
    /\ appTable' = SetAppCache(appTable, appId, [manifest |-> 0, params |-> 0, appHtml |-> 0, syncTime |-> now], now, stored)
    /\ lastRet' = Ret("setAppCache", appId, FALSE, "ok", FALSE, ~stored, [wasNew |-> appId \notin TableIds(appTable)], [evicted |-> TableIds(appTable) \ TableIds(appTable')])
    /\ UNCHANGED <<now, sessionCache, fileIdCache, sessFolderCache, sessListCache, appFilesCache, remoteVars, calls>>
    /\ UNCHANGED extVars

\* the bundle table under writes for all the apps
NextLRU ==
    \/ Tick
    \/ \E a \in AppIds, stored \in BOOLEAN : SetAppCacheCall(a, stored)

SpecLRU == Init /\ [][NextLRU]_vars

Responses == {"ok", "fail"}
SaveDocs == {Doc(1, 1, d) : d \in Datas}

\* one app and its sessions: bundle reads and html saves, session reads, saves and
\* creation, deletion of the app
Next ==
    \/ Tick
    \/ \E c \in Slots, a \in SyncApps, force \in BOOLEAN : GetAppFilesStart(c, a, force)
    \/ \E c \in Slots, f \in FileNames, rsp \in Responses, stored \in BOOLEAN : GetAppFilesResponse(c, f, rsp, stored)
    \/ \E c \in Slots, a \in SyncApps, h \in Htmls : SaveAppHtmlStart(c, a, h)
    \/ \E c \in Slots, rsp \in Responses, stored \in BOOLEAN : SaveFileResponse(c, rsp, stored)
    \/ \E c \in Slots, a \in SyncApps : DeleteAppStart(c, a)
    \/ \E c \in Slots, rsp \in Responses : DeleteAppResponse(c, rsp)
    \/ \E c \in Slots, s \in LibSessIds, force \in BOOLEAN : GetSessionStart(c, s, force)
    \/ \E c \in Slots, rsp \in Responses, stored \in BOOLEAN : GetSessionResponse(c, rsp, stored)
    \/ \E c \in Slots, s \in LibSessIds, doc \in SaveDocs : SaveSessionStart(c, s, doc)
    \/ \E c \in Slots, rsp \in Responses, stored \in BOOLEAN : SaveSessionResponse(c, rsp, stored)
    \/ \E c \in Slots, a \in SyncApps, stored \in BOOLEAN : (FreeSessIds \cap LibSessIds # {} /\ CreateSessionStart(c, a, 1, stored))
    \/ \E c \in Slots, rsp \in Responses, stored \in BOOLEAN, stored2 \in BOOLEAN : CreateSessionResponse(c, rsp, stored, stored2)

Spec == Init /\ [][Next]_vars

\* the sessions of one app, and the deletion of the app
NextSess ==
    \/ Tick
    \/ \E c \in Slots, a \in SyncApps : DeleteAppStart(c, a)
    \/ \E c \in Slots, rsp \in Responses : DeleteAppResponse(c, rsp)
    \/ \E c \in Slots, s \in LibSessIds, force \in BOOLEAN : GetSessionStart(c, s, force)
    \/ \E c \in Slots, rsp \in Responses, stored \in BOOLEAN : GetSessionResponse(c, rsp, stored)
    \/ \E c \in Slots, s \in LibSessIds, doc \in SaveDocs : SaveSessionStart(c, s, doc)
    \/ \E c \in Slots, rsp \in Responses, stored \in BOOLEAN : SaveSessionResponse(c, rsp, stored)
    \/ \E c \in Slots, a \in SyncApps, stored \in BOOLEAN : (FreeSessIds \cap LibSessIds # {} /\ CreateSessionStart(c, a, 1, stored))
    \/ \E c \in Slots, rsp \in Responses, stored \in BOOLEAN, stored2 \in BOOLEAN : CreateSessionResponse(c, rsp, stored, stored2)

SpecSess == Init /\ [][NextSess]_vars

\* the bundle of one app under reads and saves of its three files
NextMeta ==
    \/ Tick
    \/ \E c \in Slots, a \in SyncApps, force \in BOOLEAN : GetAppFilesStart(c, a, force)
    \/ \E c \in Slots, f \in FileNames, rsp \in Responses, stored \in BOOLEAN : GetAppFilesResponse(c, f, rsp, stored)
    \/ \E c \in Slots, a \in SyncApps, h \in Htmls : SaveAppHtmlStart(c, a, h)
    \/ \E c \in Slots, a \in SyncApps, m \in Htmls : SaveManifestStart(c, a, m)
    \/ \E c \in Slots, a \in SyncApps, p \in Htmls : SaveParamsStart(c, a, p)
    \/ \E c \in Slots, rsp \in Responses, stored \in BOOLEAN : SaveFileResponse(c, rsp, stored)

SpecMeta == Init /\ [][NextMeta]_vars

\* apps are created and their bundles read
NextCreate ==
    \/ Tick
    \/ \E c \in Slots, template \in {Null} \cup (Htmls \ {0}) : CreateAppStart(c, 1, template)
    \/ \E c \in Slots, f \in FileNames, rsp \in Responses, stored \in BOOLEAN, stored2 \in BOOLEAN : CreateAppResponse(c, f, rsp, stored, stored2)
    \/ \E c \in Slots, a \in created, force \in BOOLEAN : GetAppFilesStart(c, a, force)
    \/ \E c \in Slots, f \in FileNames, rsp \in Responses, stored \in BOOLEAN : GetAppFilesResponse(c, f, rsp, stored)

SpecCreate == Init /\ [][NextCreate]_vars

\* the window messages of the model: a ready, a message of a type the runner does
\* not know, and an update-session with each payload
Msgs == {<<"ready", Null>>, <<"other", Null>>} \cup {<<"update-session", d>> : d \in GuestDatas}
UpdateMsgs == {m \in Msgs : m[1] = "update-session"}

\* earlier use of the page has left session files and cache entries
EarlierUse ==
    \E stored \in BOOLEAN : (~mounted /\ FreeSessIds \cap LibSessIds # {} /\ CreateSessionStart(HostSlot, HostAppId, 1, stored))

\* the DriveClient calls of the runner's method under way, their responses and the
\* continuations of the method.  Of the cache writes, those of the session entries
\* may fail (sb); rsps are the answers Drive may give
HostCalls(rsps, sb) ==
    \/ hostPc.step = "getAppFiles" /\ lastRet = NoRet /\ GetAppFilesStart(HostSlot, HostAppId, hostPc.op = "reload")
    \/ \E f \in FileNames, rsp \in rsps : GetAppFilesResponse(HostSlot, f, rsp, TRUE)
    \/ HostAfterGetAppFiles
    \/ hostPc.step \in {"listSessions", "listAfterCreate"} /\ lastRet = NoRet /\ ListSessionsStart(HostSlot, HostAppId, TRUE)
    \/ \E rsp \in rsps : ListSessionsResponse(HostSlot, rsp, TRUE, TRUE)
    \/ HostAfterListSessions
    \/ hostPc.step = "loadSession" /\ lastRet = NoRet /\ GetSessionStart(HostSlot, hostPc.arg, hostPc.op = "reload")
    \/ \E rsp \in rsps, stored \in sb : GetSessionResponse(HostSlot, rsp, stored)
    \/ HostAfterGetSession
    \/ hostPc.step = "createSession" /\ lastRet = NoRet /\ CreateSessionStart(HostSlot, HostAppId, hostPc.arg, TRUE)
    \/ \E rsp \in rsps, stored \in sb : CreateSessionResponse(HostSlot, rsp, stored, TRUE)
    \/ HostAfterCreateSession
    \/ HostAfterListAfterCreate

\* the runner of one app is mounted and loads the app; the guest and other windows
\* send messages; the saves are answered in any order
NextHost ==
    \/ EarlierUse
    \/ ConnectedCallback
    \/ HostCalls(Responses, BOOLEAN)
    \/ \E src \in 0..frames, m \in Msgs : HandleMessage(src, m[1], m[2])
    \/ \E i \in 1..MaxMsgs, rsp \in Responses, stored \in BOOLEAN : HostSaveResponse(i, rsp, stored)

SpecHost == Init /\ [][NextHost]_vars

\* the same, and the user reloads the app
NextReload ==
    \/ EarlierUse
    \/ ConnectedCallback
    \/ HostCalls(Responses, BOOLEAN)
    \/ HandleReload
    \/ \E m \in UpdateMsgs : (msgs < MaxReloadMsgs /\ HandleMessage(iframe, m[1], m[2]))
    \/ \E i \in 1..MaxMsgs, rsp \in Responses, stored \in BOOLEAN : HostSaveResponse(i, rsp, stored)

SpecReload == Init /\ [][NextReload]_vars

\* every request to Drive is answered in the end, and a continuation that is due runs
SpecReloadFair ==
    /\ SpecReload
    /\ WF_vars(HostCalls(Responses, BOOLEAN))
    /\ \A i \in 1..MaxMsgs : WF_vars(\E rsp \in Responses, stored \in BOOLEAN : HostSaveResponse(i, rsp, stored))

\* the same, and the user switches to a listed session or asks for a new one
NextSwitch ==
    \/ EarlierUse
    \/ ConnectedCallback
    \/ HostCalls(Responses, BOOLEAN)
    \/ \E s \in SessIds : HandleSessionChange(s)
    \/ HandleNewSession(1)
    \/ \E m \in UpdateMsgs : (msgs < MaxSwitchMsgs /\ HandleMessage(iframe, m[1], m[2]))
    \/ \E i \in 1..MaxMsgs, rsp \in Responses, stored \in BOOLEAN : HostSaveResponse(i, rsp, stored)

SpecSwitch == Init /\ [][NextSwitch]_vars

\* the runner is mounted, loads the app, and is removed from the page at any moment
NextTeardown ==
    \/ EarlierUse
    \/ ConnectedCallback
    \/ HostCalls(Responses, BOOLEAN)
    \/ DisconnectedCallback
    \/ \E src \in 0..frames, m \in Msgs : HandleMessage(src, m[1], m[2])
    \/ \E i \in 1..MaxMsgs, rsp \in Responses, stored \in BOOLEAN : HostSaveResponse(i, rsp, stored)

SpecTeardown == Init /\ [][NextTeardown]_vars

\* the operations of DriveClient on one app and its sessions, with and without a token
NextAuth ==
    \/ \E v \in BOOLEAN : SetToken(v)
    \/ \E c \in Slots, a \in SyncApps, force \in BOOLEAN : GetAppFilesStart(c, a, force)
    \/ \E c \in Slots, f \in FileNames, rsp \in Responses, stored \in BOOLEAN : GetAppFilesResponse(c, f, rsp, stored)
    \/ \E c \in Slots, a \in SyncApps, h \in Htmls : SaveAppHtmlStart(c, a, h)
    \/ \E c \in Slots, rsp \in Responses : SaveFileResponse(c, rsp, TRUE)
    \/ \E c \in Slots, a \in SyncApps : DeleteAppStart(c, a)
    \/ \E c \in Slots, rsp \in Responses : DeleteAppResponse(c, rsp)
    \/ \E c \in Slots, s \in LibSessIds, force \in BOOLEAN : GetSessionStart(c, s, force)
    \/ \E c \in Slots, rsp \in Responses : GetSessionResponse(c, rsp, TRUE)
    \/ \E c \in Slots, s \in LibSessIds, doc \in SaveDocs : SaveSessionStart(c, s, doc)
    \/ \E c \in Slots, rsp \in Responses : SaveSessionResponse(c, rsp, TRUE)
    \/ \E c \in Slots, a \in SyncApps : (FreeSessIds \cap LibSessIds # {} /\ CreateSessionStart(c, a, 1, TRUE))
    \/ \E c \in Slots, rsp \in Responses : CreateSessionResponse(c, rsp, TRUE, TRUE)
    \/ \E c \in Slots, a \in SyncApps : ListSessionsStart(c, a, TRUE)
    \/ \E c \in Slots, rsp \in Responses : ListSessionsResponse(c, rsp, TRUE, TRUE)

SpecAuth == Init /\ [][NextAuth]_vars

\* reads and saves while stored strings turn unparsable; Drive answers every request
NextCorrupt ==
    \/ Tick
    \/ \E s \in LibSessIds : CorruptSessionEntry(s)
    \/ CorruptAppTable
    \/ \E c \in Slots, a \in SyncApps, force \in BOOLEAN : GetAppFilesStart(c, a, force)
    \/ \E c \in Slots, f \in FileNames : GetAppFilesResponse(c, f, "ok", TRUE)
    \/ \E c \in Slots, a \in SyncApps, h \in Htmls : SaveAppHtmlStart(c, a, h)
    \/ \E c \in Slots : SaveFileResponse(c, "ok", TRUE)
    \/ \E c \in Slots, s \in LibSessIds, force \in BOOLEAN : (rSess[s] # Absent /\ GetSessionStart(c, s, force))
    \/ \E c \in Slots : GetSessionResponse(c, "ok", TRUE)
    \/ \E c \in Slots, s \in LibSessIds, doc \in SaveDocs : (rSess[s] # Absent /\ SaveSessionStart(c, s, doc))
    \/ \E c \in Slots : SaveSessionResponse(c, "ok", TRUE)
    \/ \E c \in Slots, a \in SyncApps : (FreeSessIds \cap LibSessIds # {} /\ CreateSessionStart(c, a, 1, TRUE))
    \/ \E c \in Slots : CreateSessionResponse(c, "ok", TRUE, TRUE)

SpecCorrupt == Init /\ [][NextCorrupt]_vars

\* the other apps are opened in turn: a is the first of them with no bundle in the table
NextOpened(a) ==
    /\ a \notin TableIds(GetAppCache(appTable))
    /\ \A b \in AppIds \ SyncApps : b < a => b \in TableIds(GetAppCache(appTable))

\* the ids of one app and of the root folder are resolved, the app is deleted,
\* and the bundles of the other apps pass through the table meanwhile; of
\* createApp only ensureRootFolder is followed, Drive refusing the new folder
NextIds ==
    \/ \E a \in AppIds \ SyncApps : (NextOpened(a) /\ SetAppCacheCall(a, TRUE))
    \/ \E c \in Slots, a \in SyncApps, force \in BOOLEAN : GetAppFilesStart(c, a, force)
    \/ \E c \in Slots, f \in FileNames, rsp \in Responses, stored \in BOOLEAN : GetAppFilesResponse(c, f, rsp, stored)
    \/ \E c \in Slots, a \in SyncApps, stored \in BOOLEAN : ListSessionsStart(c, a, stored)
    \/ \E c \in Slots, rsp \in Responses, stored \in BOOLEAN, stored2 \in BOOLEAN : ListSessionsResponse(c, rsp, stored, stored2)
    \/ \E c \in Slots, a \in SyncApps : DeleteAppStart(c, a)
    \/ \E c \in Slots, rsp \in Responses : DeleteAppResponse(c, rsp)
    \/ \E c \in Slots : CreateAppStart(c, 1, Null)
    \/ \E c \in Slots, rsp \in Responses, stored \in BOOLEAN : (calls[c] # Idle /\ calls[c].op = "createApp" /\ (calls[c].pc = "root" \/ rsp = "fail") /\ CreateAppResponse(c, "manifest", rsp, stored, TRUE))

SpecIds == Init /\ [][NextIds]_vars

\* a caller that reads and a caller that saves, neither awaiting the other: the
\* reads of one session and of one bundle run beside the saves of the same
\* session and of the bundle's html.  The session is on Drive from the start
\* and the file ids of the app are cached; no session and no bundle is
RaceSlots == {1, 2}
Reader == 1
Writer == 2

InitRace ==
    /\ now = 1
    /\ appTable = <<>>
    /\ sessionCache = [s \in SessIds |-> Absent]
    /\ fileIdCache = {<<a, f>> : a \in SyncApps, f \in FileNames}
    /\ sessFolderCache = {}
    /\ sessListCache = {}
    /\ appFilesCache = {}
    /\ rApp = [a \in AppIds |-> [manifest |-> 0, params |-> 0, appHtml |-> 0]]
    /\ rTrashed = {}
    /\ rSess = [s \in SessIds |-> IF s \in LibSessIds THEN Doc(1, 1, 0) ELSE Absent]
    /\ sessOwner = [s \in SessIds |-> IF s \in LibSessIds THEN HostAppId ELSE 0]
    /\ calls = [c \in RaceSlots |-> Idle]
    /\ lastRet = NoRet
    /\ created = {}
    /\ rootFolderId = FALSE
    /\ rootCache = FALSE
    /\ token = TRUE
    /\ mounted = FALSE
    /\ connected = FALSE
    /\ iframe = 0
    /\ frames = 0
    /\ loading = TRUE
    /\ hostManifest = Null
    /\ hostParams = Null
    /\ sessions = {}
    /\ currentSession = [kind |-> "none"]
    /\ hostPc = [op |-> "idle", step |-> "none", arg |-> 0]
    /\ writes = <<>>
    /\ outbox = <<>>
    /\ msgs = 0
    /\ lastMsg = [type |-> "none"]
    /\ timestamp = Null
    /\ dateNow = 0
    /\ syncText = NotFormatted
    /\ postedFor = <<>>
    /\ guestRead = 0
    /\ sent = [kind |-> "none"]
    /\ InitPage

NextRace ==
    \/ Tick
    \/ \E a \in SyncApps, force \in BOOLEAN : GetAppFilesStart(Reader, a, force)
    \/ \E f \in FileNames : DriveServesFile(Reader, f)
    \/ \E f \in FileNames, rsp \in Responses : GetAppFilesResponse(Reader, f, rsp, TRUE)
    \/ \E s \in LibSessIds, force \in BOOLEAN : GetSessionStart(Reader, s, force)
    \/ DriveServesSession(Reader)
    \/ \E rsp \in Responses : GetSessionResponse(Reader, rsp, TRUE)
    \/ \E a \in SyncApps, h \in Htmls : SaveAppHtmlStart(Writer, a, h)
    \/ \E rsp \in Responses : SaveFileResponse(Writer, rsp, TRUE)
    \/ \E s \in LibSessIds, doc \in SaveDocs : SaveSessionStart(Writer, s, doc)
    \/ \E rsp \in Responses : SaveSessionResponse(Writer, rsp, TRUE)

SpecRace == InitRace /\ [][NextRace]_vars

\* the editor of one app: it is mounted and loads the app, the user types and
\* clicks Save, Drive answers
NextEditor ==
    \/ EditorConnectedCallback
    \/ EditorLoadDue /\ GetAppFilesStart(Reader, thisAppId, FALSE)
    \/ \E f \in FileNames, rsp \in Responses : (lastRet = NoRet /\ GetAppFilesResponse(Reader, f, rsp, TRUE))
    \/ EditorAfterGetAppFiles
    \/ \E h \in Htmls : HandleInput(h)
    \/ \E c \in RaceSlots : HandleSave(c)
    \/ \E c \in RaceSlots, rsp \in Responses : (lastRet = NoRet /\ ~EditorLoadDue /\ SaveFileResponse(c, rsp, TRUE))
    \/ EditorAfterSave

SpecEditor == InitRace /\ [][NextEditor]_vars

\* the runner of an app with two sessions on Drive, the page in its iframe, and
\* the user switching between the sessions; Drive answers the loads
InitCross ==
    /\ now = 1
    /\ appTable = <<>>
    /\ sessionCache = [s \in SessIds |-> Absent]
    /\ fileIdCache = {}
    /\ sessFolderCache = {}
    /\ sessListCache = {}
    /\ appFilesCache = {}
    /\ rApp = [a \in AppIds |-> [manifest |-> 0, params |-> 0, appHtml |-> 0]]
    /\ rTrashed = {}
    /\ rSess = [s \in SessIds |-> Doc(s, 1, 0)]
    /\ sessOwner = [s \in SessIds |-> HostAppId]
    /\ calls = [c \in Slots |-> Idle]
    /\ lastRet = NoRet
    /\ created = {}
    /\ rootFolderId = FALSE
    /\ rootCache = FALSE
    /\ token = TRUE
    /\ mounted = FALSE
    /\ connected = FALSE
    /\ iframe = 0
    /\ frames = 0
    /\ loading = TRUE
    /\ hostManifest = Null
    /\ hostParams = Null
    /\ sessions = {}
    /\ currentSession = [kind |-> "none"]
    /\ hostPc = [op |-> "idle", step |-> "none", arg |-> 0]
    /\ writes = <<>>
    /\ outbox = <<>>
    /\ msgs = 0
    /\ lastMsg = [type |-> "none"]
    /\ timestamp = Null
    /\ dateNow = 0
    /\ syncText = NotFormatted
    /\ postedFor = <<>>
    /\ guestRead = 0
    /\ sent = NoSent
    /\ InitPage

NextCross ==
    \/ ConnectedCallback
    \/ hostPc.step = "getAppFiles" /\ lastRet = NoRet /\ GetAppFilesStart(HostSlot, HostAppId, FALSE)
    \/ \E f \in FileNames : GetAppFilesResponse(HostSlot, f, "ok", TRUE)
    \/ HostAfterGetAppFiles
    \/ hostPc.step = "listSessions" /\ lastRet = NoRet /\ ListSessionsStart(HostSlot, HostAppId, TRUE)
    \/ ListSessionsResponse(HostSlot, "ok", TRUE, TRUE)
    \/ HostAfterListSessions
    \/ hostPc.step = "loadSession" /\ lastRet = NoRet /\ GetSessionStart(HostSlot, hostPc.arg, FALSE)
    \/ GetSessionResponse(HostSlot, "ok", TRUE)
    \/ HostAfterGetSession
    \/ HandleMessage(iframe, "ready", Null)
    \/ \E s \in SessIds : HandleSessionChange(s)
    \/ GuestReceives
    \/ \E d \in GuestDatas : GuestSends(d)
    \/ DeliverSent
    \/ \E i \in 1..MaxMsgs, rsp \in Responses : HostSaveResponse(i, rsp, TRUE)

SpecCross == InitCross /\ [][NextCross]_vars

\* ------------------------------------------------------------ the app-id attribute
\* the apps the page may be pointed at: the app of the page and another one.
\* Their manifests differ, so the manifest the runner holds tells the app it
\* was read from; the first app has a session, the other has none
LoadApps == {HostAppId, HostAppId + 1}
ManifestOf(a) == IF a = HostAppId THEN 0 ELSE 1

InitApps ==
    /\ now = 1
    /\ appTable = <<>>
    /\ sessionCache = [s \in SessIds |-> Absent]
    /\ fileIdCache = {}
    /\ sessFolderCache = {}
    /\ sessListCache = {}
    /\ appFilesCache = {}
    /\ rApp = [a \in AppIds |-> [manifest |-> ManifestOf(a), params |-> 0, appHtml |-> 0]]
    /\ rTrashed = {}
    /\ rSess = [s \in SessIds |-> IF s \in LibSessIds THEN Doc(1, 1, 0) ELSE Absent]
    /\ sessOwner = [s \in SessIds |-> IF s \in LibSessIds THEN HostAppId ELSE 0]
    /\ calls = [c \in Slots |-> Idle]
    /\ lastRet = NoRet
    /\ created = {}
    /\ rootFolderId = FALSE
    /\ rootCache = FALSE
    /\ token = TRUE
    /\ mounted = FALSE
    /\ connected = FALSE
    /\ iframe = 0
    /\ frames = 0
    /\ loading = TRUE
    /\ hostManifest = Null
    /\ hostParams = Null
    /\ sessions = {}
    /\ currentSession = [kind |-> "none"]
    /\ hostPc = [op |-> "idle", step |-> "none", arg |-> 0]
    /\ writes = <<>>
    /\ outbox = <<>>
    /\ msgs = 0
    /\ lastMsg = [type |-> "none"]
    /\ timestamp = Null
    /\ dateNow = 0
    /\ syncText = NotFormatted
    /\ postedFor = <<>>
    /\ guestRead = 0
    /\ sent = NoSent
    /\ InitPage

\* attributeChangedCallback('app-id', old, a) on a mounted runner: this.appId = a
\* and loadApp() up to its first await.  The attribute is changed while no
\* method of the runner is under way
AttributeChangedCallback(a) ==
    /\ mounted
    /\ connected
    /\ a # thisAppId
    /\ hostPc = HostIdle
    /\ calls[HostSlot] = Idle
    /\ frames < MaxFrames
    /\ thisAppId' = a
    /\ loading' = TRUE
    /\ iframe' = RenderedIframe(TRUE, frames)
    /\ hostPc' = [op |-> "loadApp", step |-> "getAppFiles", arg |-> 0]
    /\ lastRet' = NoRet
    /\ UNCHANGED <<now, cacheVars, remoteVars, calls, createVars, authVars, fmtVars, guestVars, editor, sessionStorage, authRet>>
    /\ UNCHANGED <<mounted, connected, frames, hostManifest, hostParams, sessions, currentSession, writes, outbox, msgs, lastMsg>>

\* the runner is mounted on the first app and loads it; the page changes the
\* app-id attribute; Drive answers or fails
NextApps ==
    \/ ConnectedCallback
    \/ \E a \in LoadApps : AttributeChangedCallback(a)
    \/ hostPc.step = "getAppFiles" /\ lastRet = NoRet /\ GetAppFilesStart(HostSlot, thisAppId, FALSE)
    \/ \E f \in FileNames, rsp \in Responses : GetAppFilesResponse(HostSlot, f, rsp, TRUE)
    \/ HostAfterGetAppFiles
    \/ hostPc.step \in {"listSessions", "listAfterCreate"} /\ lastRet = NoRet /\ ListSessionsStart(HostSlot, thisAppId, TRUE)
    \/ \E rsp \in Responses : ListSessionsResponse(HostSlot, rsp, TRUE, TRUE)
    \/ HostAfterListSessions
    \/ hostPc.step = "loadSession" /\ lastRet = NoRet /\ GetSessionStart(HostSlot, hostPc.arg, FALSE)
    \/ \E rsp \in Responses : GetSessionResponse(HostSlot, rsp, TRUE)
    \/ HostAfterGetSession
    \/ hostPc.step = "createSession" /\ lastRet = NoRet /\ CreateSessionStart(HostSlot, thisAppId, hostPc.arg, TRUE)
    \/ \E rsp \in Responses : CreateSessionResponse(HostSlot, rsp, TRUE, TRUE)
    \/ HostAfterCreateSession
    \/ HostAfterListAfterCreate

SpecApps == InitApps /\ [][NextApps]_vars

\* formatSyncTime on its own: the ages in milliseconds it is asked to show, around
\* each threshold and beyond, and the readings of the clock
Ages == {-5000, 0, 1, 999, 1000, 45000, 59999, 60000, 60001, 119999, 120000, 125000, 3599999, 3600000, 3600001, 7199999, 7200000, 7300000, 86399999, 86400000, 86400001, 172799999, 172800000, 200000000, 864000000}
Clocks == {MaxClock, MaxClock - 1}

InitFormat ==
    /\ now = 1
    /\ appTable = <<>>
    /\ sessionCache = [s \in SessIds |-> Absent]
    /\ fileIdCache = {}
    /\ sessFolderCache = {}
    /\ sessListCache = {}
    /\ appFilesCache = {}
    /\ rApp = [a \in AppIds |-> [manifest |-> 0, params |-> 0, appHtml |-> 0]]
    /\ rTrashed = {}
    /\ rSess = [s \in SessIds |-> Absent]
    /\ sessOwner = [s \in SessIds |-> 0]
    /\ calls = [c \in Slots |-> Idle]
    /\ lastRet = NoRet
    /\ created = {}
    /\ rootFolderId = FALSE
    /\ rootCache = FALSE
    /\ token = TRUE
    /\ mounted = FALSE
    /\ connected = FALSE
    /\ iframe = 0
    /\ frames = 0
    /\ loading = TRUE
    /\ hostManifest = Null
    /\ hostParams = Null
    /\ sessions = {}
    /\ currentSession = [kind |-> "none"]
    /\ hostPc = [op |-> "idle", step |-> "none", arg |-> 0]
    /\ writes = <<>>
    /\ outbox = <<>>
    /\ msgs = 0
    /\ lastMsg = [type |-> "none"]
    /\ dateNow \in Clocks
    /\ timestamp \in {Null, Undefined, 0} \cup {dateNow - d : d \in Ages}
    /\ syncText = NotFormatted
    /\ postedFor = <<>>
    /\ guestRead = 0
    /\ sent = [kind |-> "none"]
    /\ InitPage

SpecFormat == InitFormat /\ [][FormatSyncTimeCall]_vars

\* ------------------------------------------------------------ properties
Reads == {"getAppFiles", "getSession"}

\* a step in which a read is answered from the cache: no call goes in flight,
\* none settles, the clock stands
HitStep ==
    /\ calls' = calls
    /\ now' = now
    /\ lastRet'.op \in Reads
    /\ lastRet'.status = "ok"
    /\ ~lastRet'.net

\* the session file kept in an entry stored under session_<id>
CachedDoc(e) == IF e.kind = "wrapped" THEN e.data ELSE e.doc

\* a step in which getSession(s, false) / getAppFiles(a, false) is called: it is
\* answered from the cache, or its request goes out
GetSessionCalled(s) ==
    \/ HitStep /\ lastRet'.op = "getSession" /\ lastRet'.id = s /\ ~lastRet'.force
    \/ \E c \in Slots : calls[c] = Idle /\ calls'[c] # Idle /\ calls'[c].op = "getSession" /\ calls'[c].id = s /\ ~calls'[c].force
GetAppFilesCalled(a) ==
    \/ HitStep /\ lastRet'.op = "getAppFiles" /\ lastRet'.id = a /\ ~lastRet'.force
    \/ \E c \in Slots : calls[c] = Idle /\ calls'[c] # Idle /\ calls'[c].op = "getAppFiles" /\ calls'[c].id = a /\ ~calls'[c].force

\* C1: whatever writes of the bundle table have happened, the persisted table
\* holds at most APP_CACHE_MAX entries
C1_TableWithinCapacity == Len(appTable) <= APP_CACHE_MAX

\* a write into the full table that removed an entry and left the table full
C1_Witness ==
    /\ lastRet.op = "setAppCache"
    /\ lastRet.val.evicted # {}
    /\ Len(appTable) = APP_CACHE_MAX

\* the example of the specification: A, B, C, D cached at 1..4, then E at 5
ExampleTable == [i \in 1..4 |-> [id |-> i, manifest |-> 0, params |-> 0, appHtml |-> 0, syncTime |-> i, cachedAt |-> i]]
ExampleData == [manifest |-> 0, params |-> 0, appHtml |-> 0, syncTime |-> 5]

\* C2: when setAppCache stores a new app id into a table of APP_CACHE_MAX
\* entries, exactly one entry goes, no entry that was present is older than it,
\* every other entry stays as it was and the new entry is kept; in the example
\* {B, C, D, E} remain
C2_EvictsOldest ==
    [][/\ TableIds(SetAppCache(ExampleTable, 5, ExampleData, 5, TRUE)) = {2, 3, 4, 5}
       /\ (/\ lastRet'.op = "setAppCache"
           /\ now' = now
           /\ ~lastRet'.warned
           /\ lastRet'.id \notin TableIds(appTable)
           /\ Len(appTable) = APP_CACHE_MAX)
          => /\ Len(appTable') = APP_CACHE_MAX
             /\ lastRet'.id \in TableIds(appTable')
             /\ \E v \in 1..Len(appTable) :
                   /\ TableIds(appTable) \ TableIds(appTable') = {appTable[v].id}
                   /\ \A i \in 1..Len(appTable) : appTable[v].cachedAt <= appTable[i].cachedAt
                   /\ \A i \in 1..Len(appTable) : i # v => \E j \in 1..Len(appTable') : appTable'[j] = appTable[i]]_vars

\* app 2 was removed for a new app while app 1, first in the table but written
\* again later, stayed
C2_Witness ==
    /\ lastRet.op = "setAppCache"
    /\ lastRet.arg.wasNew
    /\ lastRet.val.evicted = {2}
    /\ Len(appTable) = APP_CACHE_MAX
    /\ appTable[1].id = 1

\* C3: a getAppFiles(id, false) or getSession(id, false) that finds an entry
\* for id sends nothing to Drive and returns the cached content, with a syncTime
\* that is the time the entry was cached
C3_HitReturnsCachedContent ==
    [][HitStep =>
         IF lastRet'.op = "getAppFiles"
         THEN LET e == GetAppFromCache(appTable, lastRet'.id)
              IN /\ e # Absent
                 /\ lastRet'.val = [manifest |-> e.manifest, params |-> e.params, appHtml |-> e.appHtml, syncTime |-> e.cachedAt]
         ELSE LET e == sessionCache[lastRet'.id]
              IN /\ e # Absent
                 /\ lastRet'.val.name = CachedDoc(e).name
                 /\ lastRet'.val.createdAt = CachedDoc(e).createdAt
                 /\ lastRet'.val.data = CachedDoc(e).data
                 /\ lastRet'.val.syncTime \in 1..now]_vars

\* C4: a getAppFiles or getSession answered from the cache changes nothing in
\* the cache, no cachedAt either, so the next eviction removes what it would have
C4_ReadLeavesCache ==
    [][HitStep => UNCHANGED cacheVars]_vars

\* a bundle cached earlier was served and its entry still carries the old cachedAt
C4_Witness ==
    /\ lastRet.op = "getAppFiles"
    /\ lastRet.status = "ok"
    /\ ~lastRet.net
    /\ lastRet.val.syncTime < now
    /\ GetAppFromCache(appTable, lastRet.id) # Absent
    /\ GetAppFromCache(appTable, lastRet.id).cachedAt = lastRet.val.syncTime

\* a step in which a getAppFiles(id, true) or getSession(id, true) returns its result
ForcedReadReturns ==
    \E c \in Slots :
        /\ calls[c] # Idle
        /\ calls[c].op \in Reads
        /\ calls[c].force
        /\ calls'[c] = Idle
        /\ lastRet'.status = "ok"

\* what Drive holds of file f of app a; nothing is found in a trashed app
Fetched(a, f) == IF a \in rTrashed THEN Null ELSE rApp[a][f]

\* the forced read returned what Drive holds, stamped with the current time
ReturnsFetched ==
    IF lastRet'.op = "getAppFiles"
    THEN lastRet'.val = [manifest |-> Fetched(lastRet'.id, "manifest"), params |-> Fetched(lastRet'.id, "params"), appHtml |-> Fetched(lastRet'.id, "appHtml"), syncTime |-> now]
    ELSE lastRet'.val = SpreadWithSyncTime(rSess[lastRet'.id], now)

\* the entry for the id now holds what was returned, stamped with the current time
EntryReplaced ==
    IF lastRet'.op = "getAppFiles"
    THEN LET e == GetAppFromCache(appTable', lastRet'.id)
         IN /\ e # Absent
            /\ e.cachedAt = now
            /\ [manifest |-> e.manifest, params |-> e.params, appHtml |-> e.appHtml, syncTime |-> e.syncTime] = lastRet'.val
    ELSE sessionCache'[lastRet'.id] = Wrapped(rSess[lastRet'.id], now)

\* C5 as stated: a forced read always goes to Drive, returns what it fetched,
\* and when it succeeds the entry for the id is replaced by the fetched content
\* with a fresh timestamp
C5_ForcedReadAlwaysReplaces ==
    [][/\ (lastRet'.op \in Reads /\ lastRet'.force => lastRet'.net)
       /\ (ForcedReadReturns => ReturnsFetched /\ EntryReplaced)]_vars

\* C5: a forced read always goes to Drive and returns what it fetched; when it
\* succeeds the entry for the id is replaced by the fetched content with a
\* fresh timestamp, unless the write to localStorage threw, and then the cache
\* is left as it was
C5_ForcedReadReplacesIfStored ==
    [][/\ (lastRet'.op \in Reads /\ lastRet'.force => lastRet'.net)
       /\ (ForcedReadReturns =>
             /\ ReturnsFetched
             /\ IF lastRet'.warned THEN UNCHANGED cacheVars ELSE EntryReplaced)]_vars

\* a forced getAppFiles returned html the cache did not hold when it was saved,
\* and the entry now holds it with the timestamp of the read
C5_Witness ==
    /\ lastRet.op = "getAppFiles"
    /\ lastRet.force
    /\ lastRet.status = "ok"
    /\ ~lastRet.warned
    /\ lastRet.val.appHtml = 1
    /\ lastRet.val.syncTime = now
    /\ GetAppFromCache(appTable, lastRet.id) # Absent
    /\ GetAppFromCache(appTable, lastRet.id).appHtml = 1
    /\ GetAppFromCache(appTable, lastRet.id).cachedAt = now

SaveCalls == {"saveSession", "saveAppHtml"}

ReadAfterSaveSession ==
    /\ lastRet.op = "saveSession"
    /\ lastRet.status = "ok"
    /\ GetSessionCalled(lastRet.id)

\* the read returns v: from the cache, or its request goes out while Drive holds v
ReadGivesSaved ==
    \/ /\ HitStep
       /\ lastRet'.val.name = lastRet.arg.name
       /\ lastRet'.val.createdAt = lastRet.arg.createdAt
       /\ lastRet'.val.data = lastRet.arg.data
    \/ /\ lastRet' = NoRet
       /\ rSess[lastRet.id] = lastRet.arg

\* C7 as stated: after a successful saveSession(id, v), a getSession(id, false)
\* with no other operation in between returns v, apart from syncTime
C7_ReadYourWritesAlways ==
    [][ReadAfterSaveSession => ReadGivesSaved]_vars

\* C7: after a successful saveSession(id, v) whose cache write did not throw,
\* a getSession(id, false) with no other operation in between is answered from
\* the cache and returns v, apart from syncTime
C7_ReadYourWritesIfStored ==
    [][ReadAfterSaveSession /\ ~lastRet.warned =>
         /\ HitStep
         /\ lastRet'.val.name = lastRet.arg.name
         /\ lastRet'.val.createdAt = lastRet.arg.createdAt
         /\ lastRet'.val.data = lastRet.arg.data
         /\ lastRet'.val.syncTime \in 1..now]_vars

\* a session saved with data 1 is cached with that data, and a read has been
\* answered from the cache with it
C7_Witness ==
    /\ lastRet.op = "getSession"
    /\ lastRet.status = "ok"
    /\ ~lastRet.net
    /\ lastRet.val.data = 1
    /\ sessionCache[lastRet.id] = Wrapped(rSess[lastRet.id], lastRet.val.syncTime)

\* C8: after a successful saveAppHtml, saveManifest or saveParams (whose cache
\* write, if any, did not throw), the getAppFiles(id, false) that follows returns
\* the saved html, manifest or params
C8_BundleReadYourWrites ==
    [][(/\ lastRet.op \in SaveOps
        /\ lastRet.status = "ok"
        /\ ~lastRet.warned
        /\ GetAppFilesCalled(lastRet.id))
       => \/ HitStep /\ lastRet'.val[FileOfOp(lastRet.op)] = lastRet.arg.content
          \/ lastRet' = NoRet /\ rApp[lastRet.id][FileOfOp(lastRet.op)] = lastRet.arg.content]_vars

\* C9: after deleteApp(appId) has returned, a getAppFiles(appId, false) is not
\* answered from the cache
C9_DeletedAppNotServed ==
    [][(/\ lastRet.op = "deleteApp"
        /\ lastRet.status = "ok"
        /\ GetAppFilesCalled(lastRet.id))
       => ~HitStep]_vars

\* C10: after deleteApp(appId) has returned, no session of the app has an entry
\* session_<id> in the cache
C10_DeletedAppSessionsGone ==
    (lastRet.op = "deleteApp" /\ lastRet.status = "ok")
        => \A s \in SessIds : sessOwner[s] = lastRet.id => sessionCache[s] = Absent

\* C11: after createSession(appId, name) has returned the session s (and its
\* cache write did not throw), the getSession(s, false) that follows is answered
\* from the cache and returns the created record: the name, the createdAt
\* chosen at creation, and the empty object as data
C11_CreatedSessionServed ==
    [][(/\ lastRet.op = "createSession"
        /\ lastRet.status = "ok"
        /\ ~lastRet.warned
        /\ GetSessionCalled(lastRet.val.id))
       => /\ HitStep
          /\ lastRet'.val.name = lastRet.val.data.name
          /\ lastRet'.val.createdAt = lastRet.val.data.createdAt
          /\ lastRet'.val.data = EmptyObj]_vars

\* C12: after createApp(name, template) has returned the app a (and none of its
\* cache writes threw), the getAppFiles(a, false) that follows is answered from
\* the cache, without a request, and returns the manifest, params and html that
\* createApp wrote
C12_CreatedAppServed ==
    [][(/\ lastRet.op = "createApp"
        /\ lastRet.status = "ok"
        /\ ~lastRet.warned
        /\ GetAppFilesCalled(lastRet.id))
       => /\ HitStep
          /\ lastRet'.val.manifest = lastRet.arg.manifest
          /\ lastRet'.val.params = lastRet.arg.params
          /\ lastRet'.val.appHtml = lastRet.arg.appHtml]_vars

\* ------------------------------------------------------------ the runner's messages
\* a step in which handleMessage runs; lastMsg' is then the message it was given
MessageDelivered == msgs' = msgs + 1
\* what handleMessage may touch, and what a DriveClient call it starts would touch
HandlerEffects == <<currentSession, hostManifest, hostParams, sessions, iframe, loading, hostPc, outbox, writes, calls, lastRet, cacheVars, remoteVars>>

\* C13: a window message whose source is not the contentWindow of the tracked
\* iframe, and any message while no iframe is tracked, is dropped: handleMessage
\* leaves currentSession, manifest and params as they are, posts nothing to the
\* guest and starts no call to Drive, whatever the type and the payload
C13_ForeignMessageDropped ==
    [][(MessageDelivered /\ (iframe = 0 \/ lastMsg'.src # iframe)) => UNCHANGED HandlerEffects]_vars

\* an update-session from another window has been delivered while an iframe is
\* tracked and a session is loaded
C13_Witness ==
    /\ lastMsg.type = "update-session"
    /\ iframe # 0
    /\ lastMsg.src # iframe
    /\ ~lastMsg.accepted
    /\ currentSession.kind = "session"
    /\ lastMsg.data # Null

\* a step in which handleMessage is given a message of the tracked iframe
Accepted(type) == MessageDelivered /\ lastMsg'.type = type /\ connected /\ iframe # 0 /\ lastMsg'.src = iframe
\* the step posts one init with the manifest and params of the runner and the
\* session sess to the tracked iframe, and nothing else
InitPosted(sess) ==
    outbox' = Append(outbox, [to |-> iframe, type |-> "init", manifest |-> hostManifest, params |-> hostParams, session |-> sess, success |-> FALSE, error |-> FALSE])

\* C14 as stated: an accepted ready is answered at once by exactly one init with
\* the current manifest and params and with currentSession.data, or the empty
\* object when no session is loaded
C14_ReadyAnsweredWithData ==
    [][Accepted("ready") => InitPosted(IF currentSession.kind = "session" THEN currentSession.data ELSE EmptyObj)]_vars

\* C14: an accepted ready is answered at once, in the step that handles it, by
\* exactly one init to the tracked iframe with the current manifest and params
\* and with currentSession.data, or the empty object when no session is loaded
\* or the data of the loaded session is null or undefined
C14_ReadyAnsweredWithDataOrEmpty ==
    [][Accepted("ready") =>
        InitPosted(IF currentSession.kind = "session" /\ currentSession.data \notin {Null, Undefined}
                   THEN currentSession.data ELSE EmptyObj)]_vars

\* a ready of the guest has been answered while no session was loaded
C14_Witness ==
    /\ lastMsg.type = "ready"
    /\ lastMsg.accepted
    /\ currentSession.kind = "none"
    /\ Len(outbox) > 0
    /\ outbox[Len(outbox)].type = "init"
    /\ outbox[Len(outbox)].session = EmptyObj

\* the guest has been sent an init before, and the message handled last, with no
\* replacement of currentSession since, was an update-session of the tracked iframe
UpdateSinceInit ==
    /\ lastMsg.type = "update-session"
    /\ lastMsg.accepted
    /\ \E i \in 1..Len(outbox) : outbox[i].type = "init"

\* C15 as stated: a ready accepted after an earlier init and an accepted
\* update-session with data d, with no session switch in between, is answered
\* by an init that carries d
C15_SecondInitCarriesUpdate ==
    [][(Accepted("ready") /\ UpdateSinceInit) => InitPosted(lastMsg.data)]_vars

\* C15: every accepted ready is answered by one more init; after an earlier init
\* and an update-session with data d accepted while a session is loaded, with no
\* session switch in between, the init carries d, or the empty object when d is
\* null or undefined
C15_SecondInitCarriesAppliedUpdate ==
    [][/\ Accepted("ready") => Len(outbox') = Len(outbox) + 1 /\ outbox'[Len(outbox')].type = "init"
       /\ (Accepted("ready") /\ UpdateSinceInit /\ currentSession.kind = "session")
            => InitPosted(IF lastMsg.data \notin {Null, Undefined} THEN lastMsg.data ELSE EmptyObj)]_vars

\* two readys have been answered, the second with the data of an update that
\* came between them and not with the session of the first init
C15_Witness ==
    /\ lastMsg.type = "ready"
    /\ lastMsg.accepted
    /\ Len(outbox) = 2
    /\ outbox[1].type = "init"
    /\ outbox[2].type = "init"
    /\ outbox[2].session \in 1..MaxGuestData
    /\ outbox[1].session # outbox[2].session
    /\ currentSession.kind = "session"
    /\ currentSession.data = outbox[2].session

\* ------------------------------------------------------------ the runner's saves
\* a step in which the saveSession call of write i settles
SaveCompleted(i) == i \in 1..Len(writes) /\ writes[i].st = "flight" /\ writes'[i].st # "flight"
\* a step in which handleSessionUpdate starts one more saveSession call
WriteStarted == Len(writes') = Len(writes) + 1 /\ writes'[Len(writes')].st = "flight"
\* the step posts one session-saved to iframe frame, and nothing else
SavedPosted(frame, success) ==
    outbox' = Append(outbox, [to |-> frame, type |-> "session-saved", manifest |-> Null, params |-> Null, session |-> Null, success |-> success, error |-> ~success])

C17_OptimisticUpdateKept ==
    [][/\ (Accepted("update-session") /\ currentSession.kind = "session") =>
            /\ currentSession'.data = lastMsg'.data
            /\ WriteStarted
            /\ writes'[Len(writes')].doc.data = lastMsg'.data
            /\ writes'[Len(writes')].id = currentSession.id
       /\ \A i \in 1..MaxMsgs : (SaveCompleted(i) /\ writes'[i].st = "err") =>
            /\ currentSession' = currentSession
            /\ sessionCache' = sessionCache
            /\ Len(writes') = Len(writes)
            /\ \A j \in 1..Len(writes) : j # i => writes'[j] = writes[j]
            /\ calls' = calls]_vars

\* the only write has failed: currentSession still holds its payload, and the
\* cache still holds the entry createSession put there
C17_Witness ==
    /\ Len(writes) = 1
    /\ writes[1].st = "err"
    /\ currentSession.kind = "session"
    /\ currentSession.id = writes[1].id
    /\ currentSession.data = writes[1].doc.data
    /\ currentSession.data \in 1..MaxGuestData
    /\ sessionCache[currentSession.id] # Absent
    /\ sessionCache[currentSession.id].kind = "raw"

\* the writes started so far stay in their places with their session and document
WritesKept == \A j \in 1..Len(writes) : Len(writes') >= j /\ writes'[j].id = writes[j].id /\ writes'[j].doc = writes[j].doc
\* the step starts the write of the update it handles, after those started before
WriteOfUpdateStarted ==
    /\ WriteStarted
    /\ writes'[Len(writes')].id = currentSession.id
    /\ writes'[Len(writes')].doc = Doc(currentSession.name, currentSession.createdAt, lastMsg'.data)

\* C18 as stated: every accepted update-session starts one write with its data
\* after the writes started before, and no other step starts or drops a write
C18_OneWritePerUpdate ==
    [][/\ WritesKept
       /\ Accepted("update-session") => WriteOfUpdateStarted
       /\ ~Accepted("update-session") => Len(writes') = Len(writes)]_vars

\* C18: every update-session accepted while a session is loaded starts one
\* write that carries its data, after the writes started before, whether or not
\* these are still in flight; the writes started are never dropped, merged or
\* reordered; an update-session accepted while no session is loaded starts none
C18_OneWritePerAppliedUpdate ==
    [][/\ WritesKept
       /\ (Accepted("update-session") /\ currentSession.kind = "session") => WriteOfUpdateStarted
       /\ ~(Accepted("update-session") /\ currentSession.kind = "session") => Len(writes') = Len(writes)]_vars

\* three updates have started three writes in their order, all still in flight
C18_Witness ==
    /\ Len(writes) = 3
    /\ \A j \in 1..3 : writes[j].st = "flight"
    /\ writes[1].doc.data = 1
    /\ writes[2].doc.data = Null
    /\ writes[3].doc.data = 1
    /\ msgs = 3

\* writes i and j, i issued first, are saves of the same session and have both
\* succeeded and been cached, j is the last write started and none is in flight
BothSaved(i, j) ==
    /\ i < j
    /\ j = Len(writes)
    /\ writes[i].id = writes[j].id
    /\ writes[i].st = "ok"
    /\ writes[j].st = "ok"
    /\ \A k \in 1..Len(writes) : writes[k].st # "flight"

\* C19: once two saves of the same session have both completed, the cached entry
\* of the session holds the document of the save issued later, whose data is
\* currentSession.data
C19_LaterSaveWins ==
    \A i, j \in 1..Len(writes) : BothSaved(i, j) =>
        /\ sessionCache[writes[j].id] # Absent
        /\ sessionCache[writes[j].id].kind = "wrapped"
        /\ sessionCache[writes[j].id].data = writes[j].doc
        /\ currentSession.data = writes[j].doc.data

\* ------------------------------------------------------------ session switches
\* handleSessionChange or handleNewSession has been called and has not replaced
\* currentSession yet
SwitchUnderWay == hostPc.op \in {"sessionChange", "newSession"} /\ hostPc.step \in {"loadSession", "createSession"}

\* C20: from the call of handleSessionChange or handleNewSession until
\* currentSession is replaced no message of the guest is processed: a message
\* delivered meanwhile changes neither currentSession, which is still the
\* previous session, nor the writes started, nor what has been posted
C20_NoMessageDuringSwitch ==
    [][(MessageDelivered /\ SwitchUnderWay) => UNCHANGED <<currentSession, writes, outbox>>]_vars

\* a step in which handleSessionChange, handleNewSession or handleReload ends
FlowCompleted == hostPc.op \in {"sessionChange", "newSession", "reload"} /\ hostPc' = HostIdle

\* C21: when handleSessionChange, handleNewSession or handleReload ends, the
\* iframe tracked is the one that was mounted before, no iframe has been rendered
\* anew, and one init with the session now current is posted to it
C21_InitToSameGuest ==
    [][FlowCompleted =>
        /\ iframe # 0
        /\ iframe' = iframe
        /\ frames' = frames
        /\ outbox' = Append(outbox, [to |-> iframe, type |-> "init", manifest |-> hostManifest', params |-> hostParams', session |-> InitSession(currentSession'), success |-> FALSE, error |-> FALSE])]_vars

\* ------------------------------------------------------------ teardown
\* disconnectedCallback has run
TornDown == mounted /\ ~connected

\* C22: once disconnectedCallback has run, a window message changes nothing and
\* starts no save, nothing is posted to any guest any more, and a save that was
\* in flight still completes: when Drive accepts it the session file holds its
\* document, and the cache too unless the storage write fails
C22_TeardownDiscardsResults ==
    [][TornDown =>
        /\ outbox' = outbox
        /\ MessageDelivered => UNCHANGED HandlerEffects
        /\ Len(writes') = Len(writes)
        /\ \A i \in 1..MaxMsgs : (SaveCompleted(i) /\ writes'[i].st # "err") =>
              /\ rSess'[writes[i].id] = writes[i].doc
              /\ writes'[i].st = "ok" => sessionCache'[writes[i].id] = Wrapped(writes[i].doc, now)]_vars

\* a save that was in flight at teardown has completed and been cached, and a
\* message has arrived since; the guest was told of neither
C22_Witness ==
    /\ TornDown
    /\ Len(writes) = 1
    /\ writes[1].st = "ok"
    /\ sessionCache[writes[1].id] # Absent
    /\ sessionCache[writes[1].id].kind = "wrapped"
    /\ sessionCache[writes[1].id].data = writes[1].doc
    /\ lastMsg.type = "update-session"
    /\ lastMsg.src = iframe
    /\ ~lastMsg.accepted
    /\ lastMsg.data # writes[1].doc.data
    /\ \A k \in 1..Len(outbox) : outbox[k].type # "session-saved"

\* ------------------------------------------------------------ DriveClient errors
\* C23: while getToken() yields no token, no operation of DriveClient sends a
\* request to Drive: no call goes in flight, and a call that is not answered
\* from the cache fails at once without having used the network
C23_NoTokenNoRequest ==
    [][~token =>
        /\ \A c \in Slots : calls'[c] = Idle
        /\ (lastRet' # lastRet /\ lastRet'.op # "none") => ~lastRet'.net]_vars

\* C24: a call whose request Drive refuses fails towards its caller in the step
\* that handles the response: the call is over, no request is sent in its place,
\* and neither the cache nor the remote store is touched; with no token every
\* answer is a refusal, and every call under way ends so.  A call that goes on
\* after an answer goes on to its next request and has told its caller nothing
C24_RefusedCallFailsOnce ==
    [][\A c \in Slots : calls[c] # Idle =>
        /\ lastRet'.status = "err" =>
              /\ calls'[c] = Idle
              /\ lastRet'.op = calls[c].op
              /\ lastRet'.net
              /\ UNCHANGED <<cacheVars, remoteVars>>
        /\ (~token /\ calls'[c] # calls[c]) => lastRet'.status = "err"
        /\ calls'[c] # Idle => (calls'[c].op = calls[c].op /\ lastRet' = NoRet)]_vars

\* saveAppHtml has failed at its updateFile, after a lookup Drive had answered
C24_Witness ==
    /\ lastRet.op = "saveAppHtml"
    /\ lastRet.status = "err"
    /\ lastRet.net
    /\ token
    /\ \A c \in Slots : calls[c] = Idle
    /\ <<lastRet.id, "appHtml">> \in fileIdCache
    /\ rApp[lastRet.id]["appHtml"] # lastRet.arg.content

\* a step in which a call Drive was asked for returns to its caller
CallReturns(c) == calls[c] # Idle /\ calls'[c] = Idle

\* the result the operation gives when nothing goes wrong
NormalResult(c) ==
    CASE calls[c].op \in Reads -> ReturnsFetched
      [] calls[c].op = "saveSession" -> rSess'[calls[c].id] = calls[c].doc
      [] calls[c].op = "saveAppHtml" -> rApp'[calls[c].id]["appHtml"] = calls[c].content
      [] calls[c].op = "createSession" ->
            /\ lastRet'.val.id \in SessIds
            /\ rSess'[lastRet'.val.id] = lastRet'.val.data
            /\ sessOwner'[lastRet'.val.id] = calls[c].id
      [] OTHER -> TRUE

\* C25: a cache write that throws never fails the operation around it: the
\* call of getAppFiles, getSession, saveSession, saveAppHtml or createSession
\* whose write to localStorage threw still returns its normal result, with the
\* bundle and session entries left as they were; and a call that changed what
\* Drive holds never reports a failure
C25_CacheWriteFailureSwallowed ==
    [][\A c \in Slots : CallReturns(c) =>
        /\ lastRet'.warned =>
              /\ lastRet'.status = "ok"
              /\ NormalResult(c)
              /\ UNCHANGED <<appTable, sessionCache>>
        /\ (rSess' # rSess \/ rApp' # rApp) => lastRet'.status = "ok"]_vars

\* saveSession has written data 1 to Drive, its cache write threw, and the
\* call succeeded with the cache still holding no such entry
C25_Witness ==
    /\ lastRet.op = "saveSession"
    /\ lastRet.warned
    /\ lastRet.status = "ok"
    /\ lastRet.arg.data = 1
    /\ rSess[lastRet.id] = lastRet.arg
    /\ (sessionCache[lastRet.id] = Absent \/ CachedDoc(sessionCache[lastRet.id]) # lastRet.arg)

\* the stored string a read of the id would parse does not parse
EntryUnparsable(op, id) ==
    IF op = "getAppFiles" THEN appTable = UnparsableTable ELSE sessionCache[id] = Unparsable

\* C26: an entry that cannot be parsed counts as no entry: getAppFiles and
\* getSession are never answered from it but ask Drive, whose answer they return
\* and write over it, and with Drive answering every request no read ever fails
C26_UnparsableEntryIsMiss ==
    [][/\ lastRet'.op \in Reads => lastRet'.status # "err"
       /\ \A c \in Slots :
            /\ (calls[c] = Idle /\ lastRet' # lastRet /\ lastRet'.op \in Reads /\ EntryUnparsable(lastRet'.op, lastRet'.id)) => FALSE
            /\ (calls[c] = Idle /\ calls'[c] # Idle /\ calls'[c].op \in Reads) => lastRet' = NoRet
            /\ (CallReturns(c) /\ calls[c].op \in Reads) =>
                  /\ lastRet'.status = "ok"
                  /\ ReturnsFetched
                  /\ EntryReplaced]_vars

\* a getSession(id, false) of a session that was created, and so cached, has
\* gone to Drive and returned the document: its entry did not parse
C26_Witness ==
    /\ lastRet.op = "getSession"
    /\ ~lastRet.force
    /\ lastRet.net
    /\ lastRet.status = "ok"
    /\ lastRet.val = SpreadWithSyncTime(rSess[lastRet.id], now)
    /\ sessionCache[lastRet.id] = Wrapped(rSess[lastRet.id], now)
    /\ appTable = UnparsableTable

\* a step in which call c of operation op leaves with a request in flight
StartOf(c, op) == calls[c] = Idle /\ calls'[c] # Idle /\ calls'[c].op = op

\* findFile has resolved the id of file f in getAppFiles; getSessionsFolderId
\* has resolved the folder id in listSessions; ensureRootFolder has in createApp
LookupAnswered(c, f) ==
    /\ calls[c] # Idle /\ calls[c].op = "getAppFiles" /\ calls[c].ch[f].st = "find"
    /\ calls'[c] # Idle /\ calls'[c].ch[f].st = "read"
FolderResolved(c) ==
    /\ calls[c] # Idle /\ calls[c].op = "listSessions" /\ calls[c].pc \in {"findFolder", "createFolder"}
    /\ calls'[c] # Idle /\ calls'[c].pc = "list"
RootResolved(c) ==
    /\ calls[c] # Idle /\ calls[c].op = "createApp" /\ calls[c].pc = "root"
    /\ calls'[c] # Idle /\ calls'[c].pc = "folder"

\* no stored id is removed, except those of its app by deleteApp
IdsKept ==
    /\ rootFolderId => rootFolderId'
    /\ rootCache => rootCache'
    /\ IF \E c \in Slots : StartOf(c, "deleteApp")
       THEN \A c \in Slots : StartOf(c, "deleteApp") =>
              /\ fileIdCache \ fileIdCache' \subseteq {<<calls'[c].id, f>> : f \in FileNames}
              /\ sessFolderCache \ sessFolderCache' \subseteq {calls'[c].id}
       ELSE fileIdCache \subseteq fileIdCache' /\ sessFolderCache \subseteq sessFolderCache'

\* a call asks Drive for an id exactly when the id is not stored, and creates
\* the sessions folder when the lookup finds none
LookupOnlyOnMiss ==
    \A c \in Slots :
        /\ StartOf(c, "getAppFiles") =>
              \A f \in FileNames : calls'[c].ch[f].st = IF <<calls'[c].id, f>> \in fileIdCache THEN "read" ELSE "find"
        /\ StartOf(c, "listSessions") =>
              calls'[c].pc = IF calls'[c].id \in sessFolderCache \/ <<calls'[c].id, "sessions">> \in fileIdCache THEN "list" ELSE "findFolder"
        /\ StartOf(c, "createApp") =>
              calls'[c].pc = IF rootFolderId \/ rootCache THEN "folder" ELSE "root"
        /\ (calls[c] # Idle /\ calls[c].op = "listSessions" /\ calls[c].pc = "findFolder" /\ calls'[c] # Idle /\ calls'[c] # calls[c]) =>
              calls'[c].pc = IF calls[c].id \in rTrashed THEN "createFolder" ELSE "list"

\* C27 as stated: every id the resolvers resolve is stored from then on, so that
\* no later call for the key asks Drive; nothing but deleteApp removes a stored
\* id, whatever happens to the bundle table; a miss is looked up, and the folder
\* created when absent
C27_ResolvedIdsAlwaysStored ==
    [][/\ IdsKept
       /\ LookupOnlyOnMiss
       /\ \A c \in Slots :
            /\ \A f \in FileNames : LookupAnswered(c, f) => <<calls[c].id, f>> \in fileIdCache'
            /\ FolderResolved(c) => (calls[c].id \in sessFolderCache' \/ <<calls[c].id, "sessions">> \in fileIdCache')
            /\ RootResolved(c) => rootFolderId']_vars

\* C27: an id the resolvers resolve is stored unless the write to localStorage
\* throws; a stored id is never evicted, whatever happens to the bundle table,
\* and only deleteApp removes the ids of its app: every call made while the id
\* is stored gets it with no request to Drive; a miss is looked up, and the
\* folder created when absent
C27_StoredIdsNeverEvicted ==
    [][/\ IdsKept
       /\ LookupOnlyOnMiss
       /\ \A c \in Slots :
            /\ \A f \in FileNames : LookupAnswered(c, f) => fileIdCache' \in {fileIdCache, fileIdCache \cup {<<calls[c].id, f>>}}
            /\ FolderResolved(c) => sessFolderCache' \in {sessFolderCache, sessFolderCache \cup {calls[c].id}}
            /\ RootResolved(c) => rootFolderId']_vars

\* getAppFiles is under way with the three file ids taken from the cache, while
\* the bundle table is full of the other apps' bundles
C27_Witness ==
    \E c \in Slots :
        /\ calls[c] # Idle
        /\ calls[c].op = "getAppFiles"
        /\ \A f \in FileNames : calls[c].ch[f].st = "read" /\ <<calls[c].id, f>> \in fileIdCache
        /\ Len(appTable) = APP_CACHE_MAX
        /\ calls[c].id \notin TableIds(appTable)
        /\ rootFolderId
        /\ calls[c].id \in sessFolderCache

\* C28: deleteApp trashes the app on Drive before it touches the cache: the step
\* that sends the request leaves every cache entry in place, ids are removed
\* only in a step in which Drive trashes the app, and a deleteApp that fails
\* leaves the cache as it was
C28_TrashBeforeInvalidate ==
    [][/\ (fileIdCache \ fileIdCache' # {} \/ sessFolderCache \ sessFolderCache' # {}) => rTrashed' # rTrashed
       /\ \A c \in Slots :
            /\ StartOf(c, "deleteApp") => UNCHANGED cacheVars
            /\ (CallReturns(c) /\ calls[c].op = "deleteApp" /\ lastRet'.status = "err") => UNCHANGED cacheVars]_vars

\* C29: for a timestamp that is not empty and d = Date.now() - timestamp,
\* formatSyncTime returns 'just now' when floor(d/1000) < 60, else '<m>m ago'
\* with m = floor(d/60000) when m < 60, else '<h>h ago' with h = floor(d/3600000)
\* when h < 24, else '<k>d ago' with k = floor(d/86400000); 45,000 ms gives
\* 'just now', 125,000 ms '2m ago' and 7,300,000 ms '2h ago'
C29_FormatSyncTime ==
    (syncText # NotFormatted /\ timestamp \notin {Null, Undefined, 0}) =>
        LET d == dateNow - timestamp
        IN /\ syncText = IF d \div 1000 < 60 THEN "just now"
                         ELSE IF d \div 60000 < 60 THEN Ago(d \div 60000, "m")
                         ELSE IF d \div 3600000 < 24 THEN Ago(d \div 3600000, "h")
                         ELSE Ago(d \div 86400000, "d")
           /\ d = 45000 => syncText = "just now"
           /\ d = 125000 => syncText = "2m ago"
           /\ d = 7300000 => syncText = "2h ago"

\* a timestamp 7,300,000 ms old has been shown as '2h ago'
C29_Witness ==
    /\ dateNow - timestamp = 7300000
    /\ timestamp \notin {Null, Undefined, 0}
    /\ syncText = "2h ago"

\* no call of the reader or of the writer is under way
Quiescent == \A c \in RaceSlots : calls[c] = Idle

\* C30: reads and saves of the same id converge: once none of them is under
\* way, a cached session is the session Drive holds, and a cached bundle holds
\* the html Drive holds; in particular a read served before a save was applied
\* has not replaced the entry the save wrote
C30_CacheConvergesToRemote ==
    Quiescent =>
        /\ \A s \in LibSessIds : sessionCache[s] # Absent => CachedDoc(sessionCache[s]) = rSess[s]
        /\ \A a \in SyncApps : GetAppFromCache(appTable, a) # Absent => GetAppFromCache(appTable, a).appHtml = rApp[a]["appHtml"]

\* a step in which the runner is delivered the update-session the page posted
\* last, and starts a save for it
SentSaved ==
    /\ sent # NoSent
    /\ sent.n = msgs
    /\ msgs' = msgs + 1
    /\ Len(writes') = Len(writes) + 1

\* C31: session data never crosses sessions: the save the runner starts for an
\* update-session goes to the session the page was showing when it posted the
\* message, that is, the session of the last init the page had received
C31_UpdateSavedUnderShownSession ==
    [][SentSaved =>
        /\ writes'[Len(writes')].doc.data = sent.data
        /\ writes'[Len(writes')].id = sent.shows]_vars

\* C32: saving guest data preserves session metadata: every record the runner
\* writes through saveCurrentSession has the name and the createdAt of the
\* session file on Drive, which are those the session was created with,
\* however the session became current (read from Drive, or from the cache
\* entry saveSession or createSession had written)
C32_SaveKeepsMetadata ==
    \A i \in 1..Len(writes) :
        rSess[writes[i].id] # Absent =>
            /\ writes[i].doc.name = rSess[writes[i].id].name
            /\ writes[i].doc.createdAt = rSess[writes[i].id].createdAt

\* a step in which handleSessionChange, asked for another session than the
\* current one, goes on after a loadSession whose getSession failed
FailedSwitch ==
    /\ hostPc.op = "sessionChange"
    /\ hostPc' = HostIdle
    /\ currentSession.kind = "session"
    /\ hostPc.arg # currentSession.id
    /\ lastRet.op = "getSession"
    /\ lastRet.status = "err"

\* C33: when the load of the target session fails during handleSessionChange,
\* the runner does not present the previous session as the result of the
\* switch: the step posts no init built from the previous session, and the
\* previous session is not left as the one later update-session messages are
\* saved under
C33_FailedSwitchNotPresented ==
    [][FailedSwitch =>
        /\ ~(/\ Len(outbox') = Len(outbox) + 1
             /\ outbox'[Len(outbox')].type = "init"
             /\ outbox'[Len(outbox')].session = InitSession(currentSession))
        /\ currentSession'.kind = "session" => currentSession'.id # currentSession.id]_vars

\* a step of a call getAppFiles(id, true) or getSession(id, true) that is under
\* way, and the step in which such a call returns its result
ForcedReadStep(c) ==
    /\ calls[c] # Idle
    /\ calls[c].op \in {"getAppFiles", "getSession"}
    /\ calls[c].force
    /\ calls'[c] # calls[c]
ForcedReadDone(c) == ForcedReadStep(c) /\ calls'[c] = Idle /\ lastRet'.status # "err"

\* C35 as stated: no step of a forced getAppFiles or getSession other than its
\* successful end writes any cache entry, so a fetch that fails has left the
\* entry of id and every other cache entry exactly as before
C35_FailedFetchLeavesCache ==
    [][\A c \in Slots : (ForcedReadStep(c) /\ ~ForcedReadDone(c)) => UNCHANGED cacheVars]_vars

\* C35: a forced getAppFiles or getSession writes the cached bundles and
\* sessions only in the step in which it returns its result, when every file
\* of the bundle has been fetched, and a fetch that fails writes nothing; what
\* the call may have stored before is the id of a file that findFile looked up
C35_FailedFetchLeavesEntries ==
    [][\A c \in Slots :
        /\ (ForcedReadStep(c) /\ ~ForcedReadDone(c)) =>
              /\ UNCHANGED <<appTable, sessionCache, sessFolderCache, sessListCache, appFilesCache>>
              /\ fileIdCache \subseteq fileIdCache'
              /\ \A e \in fileIdCache' \ fileIdCache : calls[c].op = "getAppFiles" /\ e[1] = calls[c].id
              /\ calls'[c] = Idle => UNCHANGED cacheVars
        /\ (ForcedReadDone(c) /\ calls[c].op = "getAppFiles") =>
              /\ Cardinality({f \in FileNames : calls[c].ch[f].st = "val"}) = Cardinality(FileNames) - 1
              /\ UNCHANGED <<sessionCache, fileIdCache, sessFolderCache, sessListCache, appFilesCache>>
        /\ (ForcedReadDone(c) /\ calls[c].op = "getSession") =>
              UNCHANGED <<appTable, fileIdCache, sessFolderCache, sessListCache, appFilesCache>>]_vars

\* a forced getAppFiles has failed on a request while the bundle of the app
\* was cached
C35_Witness ==
    /\ lastRet.op = "getAppFiles"
    /\ lastRet.force
    /\ lastRet.net
    /\ lastRet.status = "err"
    /\ GetAppFromCache(appTable, lastRet.id) # Absent

\* a step that is a call of getToken, or of isSignedIn
GetTokenCall == authRet'.op = "getToken" /\ dateNow' = dateNow
IsSignedInCall == authRet'.op = "isSignedIn" /\ dateNow' = dateNow

\* C38: getToken never returns a token that expires within the next five
\* minutes: it returns a token only when that is the stored one and
\* now <= expiry - 300000 for the stored expiry; a call past that point with a
\* token stored returns none and clears the stored token and expiry; and with
\* no token stored getToken and isSignedIn report no credential
C38_NoTokenNearExpiry ==
    [][/\ GetTokenCall =>
            /\ authRet'.val # Null =>
                  /\ authRet'.val = sessionStorage[tokenKey]
                  /\ sessionStorage[expiryKey] \notin {Null, NaN}
                  /\ dateNow <= sessionStorage[expiryKey] - 300000
            /\ (sessionStorage[tokenKey] # Null /\ authRet'.val = Null) => sessionStorage' = SignedOut
            /\ sessionStorage[tokenKey] = Null => authRet'.val = Null
       /\ IsSignedInCall => (sessionStorage[tokenKey] = Null => authRet'.val = 0)]_vars

\* C36: the dirty flag of the editor is false only when the html in the editor
\* is the html of the last successful saveAppHtml or of the last load: text
\* typed while a save is under way is still reported as unsaved when that
\* save has returned
C36_CleanMeansSaved ==
    (editor.mounted /\ ~editor.loading /\ ~editor.dirty) => editor.appHtml = editor.synced

\* the saveAppHtml calls of the editor that are under way
SavesInFlight == {c \in DOMAIN calls : SaveInFlight(c)}

\* C37: the editor never has more than one saveAppHtml under way: a handleSave
\* while saving is true starts nothing and changes nothing, and saving is
\* true only while the save is under way, so it is false again after every
\* save, failed or not, and the next click starts a save
C37_OneSaveAtATime ==
    /\ [](Cardinality(SavesInFlight) <= 1)
    /\ [](lastRet = NoRet => (editor.saving <=> SavesInFlight # {}))
    /\ [][/\ (editor.saving /\ lastRet = NoRet) => \A c \in DOMAIN calls : ~StartOf(c, "saveAppHtml")
          /\ (lastRet.op = "saveAppHtml" /\ lastRet' = NoRet) => ~editor'.saving]_vars

\* a save has failed, saving went back to false, and a later save is under way
C37_Witness ==
    /\ editor.settled = "err"
    /\ editor.saving
    /\ SavesInFlight # {}

\* loadApp has ended: the runner is mounted, no method is under way and the
\* loading view is gone
LoadSettled == mounted /\ hostPc = HostIdle /\ ~loading

\* C34: after loadApp has ended, a current session is a session of the app
\* this.appId names, and the manifest the runner holds is of that same app,
\* also when a step of the load has failed
C34_SessionOfCurrentApp ==
    (LoadSettled /\ currentSession.kind = "session") =>
        /\ sessOwner[currentSession.id] = thisAppId
        /\ hostManifest # Null => hostManifest = ManifestOf(sessOwner[currentSession.id])

====
